---- MODULE Spec2Model ----
(***************************************************************************)
(* ClawGate: an OpenAI-compatible gateway that routes every chat           *)
(* completion through a layered routing engine to an upstream provider,    *)
(* falls back along a chain when a provider fails, tracks per-provider     *)
(* health and logs every attempt to a metrics store.                       *)
(*                                                                         *)
(* Text is modelled as a sequence of one-character strings, so that        *)
(* substring tests, lower-casing and lengths are computed, not assumed.    *)
(* Wall-clock fields (last_check, timestamp, elapsed_ms) are left out:     *)
(* no decision of the program reads them.                                  *)
(***************************************************************************)
EXTENDS Integers, Sequences, FiniteSets, TLC

VARIABLES
    tasks,           \* how many handler tasks the event loop runs at once
    backends,        \* main._providers: the names that have a ProviderBackend
    fallback_chain,  \* config.fallback_chain
    metrics_enabled, \* config.metrics["enabled"]
    health,          \* backend name -> ProviderHealth of that backend
    reqs,            \* request id -> the chat_completions task serving it
    log,             \* the rows of the requests table, in insertion order
    arrived,         \* number of chat-completion requests received so far
    snapshot,        \* the health snapshot the last step took, if it took one
    ph,              \* one ProviderHealth object driven directly (unit level)
    ph_hist,         \* history: latency of every success recorded on ph
    ph_run,          \* history: failures recorded on ph since its last success
    ph_op,           \* history: the last call made on ph
    rt,              \* Router.route called directly: the last call, a kept one,
                     \* and whether a different call was made since it was kept
    gbody,           \* the last request body _complete_google built
    stats,           \* the last query made on the metrics store and its result
    cost,            \* calc_cost called directly: its arguments and results
    dbpath,          \* _safe_db_path called directly: its inputs and result
    providers,       \* config.providers: configured name -> its settings
    models,          \* the data of the answer the last step gave, if the step
                     \* was GET /v1/models
    mt               \* a matcher or the classifier layer called directly: the
                     \* call and what it returned

vars == <<tasks, backends, fallback_chain, metrics_enabled, health, reqs, log,
          arrived, snapshot, ph, ph_hist, ph_run, ph_op, rt, gbody, stats, cost,
          dbpath, providers, models, mt>>

(***************************************************************************)
(* Bounds of the model.                                                    *)
(***************************************************************************)
MaxRequests == 2      \* chat-completion requests per behaviour
MaxLog == 1           \* no request is admitted once the log holds this many rows
MaxSuccesses == 22    \* successes recorded on ph (more than the ring holds)
MaxFailRun == 4       \* consecutive failures recorded on ph
MaxLatency == 2       \* latency samples are 1..MaxLatency
MaxGoogleCalls == 1   \* calls of _complete_google per behaviour
MaxRows == 2          \* rows written to the metrics store driven directly
MaxTokens == 2        \* token counts given to calc_cost are 0..MaxTokens

(***************************************************************************)
(* Program constants.                                                      *)
(***************************************************************************)
RingSize == 20        \* record_success keeps the last 20 latencies
Million == 1000000    \* calc_cost divides by 1_000_000
MaxFailuresDefault == 3   \* record_failure(error, max_failures=3)

Null == "<null>"

(***************************************************************************)
(* Text helpers.                                                           *)
(***************************************************************************)
LowerChar(c) ==
    CASE c = "A" -> "a" [] c = "B" -> "b" [] c = "H" -> "h" [] c = "P" -> "p"
      [] c = "R" -> "r" [] c = "T" -> "t" [] OTHER -> c

\* str.lower()
Lower(s) == [i \in 1..Len(s) |-> LowerChar(s[i])]

\* Python's  sub in text  on strings
Contains(sub, text) ==
    \E i \in 0..(Len(text) - Len(sub)) :
        SubSeq(text, i + 1, i + Len(sub)) = sub

RECURSIVE SumSeq(_)
SumSeq(s) == IF s = <<>> THEN 0 ELSE Head(s) + SumSeq(Tail(s))

\* s[-n:]
LastN(s, n) == IF Len(s) <= n THEN s ELSE SubSeq(s, Len(s) - n + 1, Len(s))

(***************************************************************************)
(* ProviderHealth (providers.py).  avg_latency_ms is the exact quotient    *)
(* sum/len, kept as a numerator and a denominator.                         *)
(***************************************************************************)
NewHealth ==
    [healthy |-> TRUE, consecutive_failures |-> 0, last_error |-> "",
     avg_latency_ms |-> [num |-> 0, den |-> 1], latencies |-> <<>>]

\* Faulty variants of record_success, which the properties of the health
\* record must reject: one leaves the healthy flag as it was, one never
\* trims the ring.
record_success_stays_unhealthy(h, latency_ms) ==
    LET appended == Append(h.latencies, latency_ms)
        ring == IF Len(appended) > RingSize THEN LastN(appended, RingSize)
                ELSE appended
    IN  [healthy |-> h.healthy, consecutive_failures |-> 0, last_error |-> "",
         latencies |-> ring,
         avg_latency_ms |-> [num |-> SumSeq(ring), den |-> Len(ring)]]

record_success_untrimmed(h, latency_ms) ==
    LET ring == Append(h.latencies, latency_ms)
    IN  [healthy |-> TRUE, consecutive_failures |-> 0, last_error |-> "",
         latencies |-> ring,
         avg_latency_ms |-> [num |-> SumSeq(ring), den |-> Len(ring)]]

record_success(h, latency_ms) ==
    LET appended == Append(h.latencies, latency_ms)
        ring == IF Len(appended) > RingSize THEN LastN(appended, RingSize)
                ELSE appended
    IN  [healthy |-> TRUE, consecutive_failures |-> 0, last_error |-> "",
         latencies |-> ring,
         avg_latency_ms |-> [num |-> SumSeq(ring), den |-> Len(ring)]]

\* Faulty variants of record_failure: one flips the flag only above the
\* threshold, one updates the counter and the error but not the flag.
record_failure_above(h, error) ==
    LET n == h.consecutive_failures + 1
    IN  [h EXCEPT !.consecutive_failures = n,
                  !.last_error = error,
                  !.healthy = IF n > MaxFailuresDefault THEN FALSE ELSE @]

record_failure_counter_only(h, error) ==
    [h EXCEPT !.consecutive_failures = @ + 1, !.last_error = error]

record_failure(h, error) ==
    LET n == h.consecutive_failures + 1
    IN  [h EXCEPT !.consecutive_failures = n,
                  !.last_error = error,
                  !.healthy = IF n >= MaxFailuresDefault THEN FALSE ELSE @]

\* round(x, 1) of the quotient num/den, in tenths
RoundTenths(q) == (20 * q.num + q.den) \div (2 * q.den)

to_dict(name, h) ==
    [name |-> name, healthy |-> h.healthy,
     consecutive_failures |-> h.consecutive_failures,
     avg_latency_ms |-> RoundTenths(h.avg_latency_ms),
     last_error |-> h.last_error]

(***************************************************************************)
(* Message content.  A content value is a string, JSON null, or a          *)
(* multimodal array whose elements are dicts (with or without a text key)  *)
(* or non-dict values.                                                     *)
(***************************************************************************)
Str(s) == [kind |-> "str", text |-> s]
NullContent == [kind |-> "null"]
Parts(ps) == [kind |-> "list", parts |-> ps]
TextPart(s) == [dict |-> TRUE, has_text |-> TRUE, text |-> s]
ImagePart == [dict |-> TRUE, has_text |-> FALSE]
NonDictPart == [dict |-> FALSE]

\* sep.join(items) for a sequence of strings
RECURSIVE JoinWith(_, _)
JoinWith(sep, items) ==
    IF items = <<>> THEN <<>>
    ELSE IF Len(items) = 1 THEN items[1]
    ELSE items[1] \o sep \o JoinWith(sep, Tail(items))

RECURSIVE PartTexts(_)
PartTexts(ps) ==
    IF ps = <<>> THEN <<>>
    ELSE LET p == Head(ps)
         IN  IF ~p.dict THEN PartTexts(Tail(ps))
             ELSE <<IF p.has_text THEN p.text ELSE <<>>>> \o PartTexts(Tail(ps))

\* router.py _extract_text, lines 49-54: content as the loop sees it
\* (a string, or Null when content is JSON null)
LoopContent(msg) ==
    IF msg.content.kind = "list" THEN JoinWith(<<" ">>, PartTexts(msg.content.parts))
    ELSE IF msg.content.kind = "null" THEN Null
    ELSE msg.content.text

RECURSIVE LastWithRole(_, _)
LastWithRole(messages, role) ==
    IF messages = <<>> THEN <<>>
    ELSE LET m == messages[Len(messages)]
         IN  IF m.role = role THEN LoopContent(m)
             ELSE LastWithRole(SubSeq(messages, 1, Len(messages) - 1), role)

\* "\n".join(full) raises TypeError when an item is None
extract_text_raises(messages) ==
    \E i \in 1..Len(messages) : messages[i].content.kind = "null"

_extract_text(messages) ==
    [system |-> LastWithRole(messages, "system"),
     last_user |-> LastWithRole(messages, "user"),
     full |-> JoinWith(<<"\n">>, [i \in 1..Len(messages) |-> LoopContent(messages[i])])]

Max(a, b) == IF a >= b THEN a ELSE b

_estimate_tokens(text) == Max(1, Len(text) \div 4)

RECURSIVE Strip(_)
Strip(s) ==
    IF s = <<>> THEN s
    ELSE IF Head(s) = " " THEN Strip(Tail(s))
    ELSE IF s[Len(s)] = " " THEN Strip(SubSeq(s, 1, Len(s) - 1))
    ELSE s

Has(d, key) == key \in DOMAIN d

(***************************************************************************)
(* Routing engine (router.py).  A match object is a record that has        *)
(* exactly the keys the configuration gives it.                            *)
(***************************************************************************)
AnyPatternIn(patterns, text) ==
    \E i \in 1..Len(patterns) : Contains(patterns[i], text)

AnyLoweredIn(patterns, text) ==
    \E i \in 1..Len(patterns) : Contains(Lower(patterns[i]), text)

HeaderGet(headers, name) == IF name \in DOMAIN headers THEN headers[name] ELSE <<>>

header_hit(match, ctx) ==
    \E name \in DOMAIN match.header_contains :
        AnyLoweredIn(match.header_contains[name], Lower(HeaderGet(ctx.headers, name)))

\* Faulty variant of _match_static: a miss of the first key present ends the
\* evaluation, whatever other keys the object has.
RECURSIVE _match_static_first_key_decides(_, _)
_match_static_first_key_decides(match, ctx) ==
    IF Has(match, "any")
    THEN \E i \in 1..Len(match.any) : _match_static_first_key_decides(match.any[i], ctx)
    ELSE IF Has(match, "model_requested")
    THEN AnyPatternIn(match.model_requested, ctx.model_requested)
    ELSE IF Has(match, "system_prompt_contains")
    THEN AnyLoweredIn(match.system_prompt_contains, Lower(ctx.system_prompt))
    ELSE IF Has(match, "header_contains") THEN header_hit(match, ctx)
    ELSE FALSE

RECURSIVE _match_static(_, _)
_match_static(match, ctx) ==
    IF Has(match, "any")
    THEN \E i \in 1..Len(match.any) : _match_static(match.any[i], ctx)
    ELSE IF Has(match, "model_requested")
              /\ AnyPatternIn(match.model_requested, ctx.model_requested)
    THEN TRUE
    ELSE IF Has(match, "model_requested") /\ DOMAIN match = {"model_requested"}
    THEN FALSE
    ELSE IF Has(match, "system_prompt_contains")
              /\ AnyLoweredIn(match.system_prompt_contains, Lower(ctx.system_prompt))
    THEN TRUE
    ELSE IF Has(match, "system_prompt_contains")
              /\ DOMAIN match = {"system_prompt_contains"}
    THEN FALSE
    ELSE IF Has(match, "header_contains") /\ header_hit(match, ctx)
    THEN TRUE
    ELSE FALSE

NoDecision == [none |-> TRUE]

Decision(provider, layer, rule, confidence) ==
    [provider_name |-> provider, layer |-> layer, rule_name |-> rule,
     confidence |-> confidence]

\* index of the first rule of the list that matches, 0 when none does
FirstStatic(rules, ctx) ==
    LET hits == {i \in 1..Len(rules) : _match_static(rules[i].match, ctx)}
    IN  IF hits = {} THEN 0 ELSE CHOOSE i \in hits : \A j \in hits : i <= j

\* confidences are in thousandths: 1.0 is 1000
_layer_static(cfg, ctx) ==
    IF ~cfg.static_rules.enabled THEN NoDecision
    ELSE LET i == FirstStatic(cfg.static_rules.rules, ctx)
         IN  IF i = 0 THEN NoDecision
             ELSE Decision(cfg.static_rules.rules[i].route_to, "static",
                           cfg.static_rules.rules[i].name, 1000)

hit_count(keywords, search_text) ==
    Cardinality({i \in 1..Len(keywords) : Contains(Lower(keywords[i]), search_text)})

\* Faulty variant of _match_heuristic: the keywords are also looked for in
\* the system prompt.
_match_heuristic_scores_system(match, ctx) ==
    IF Has(match, "fallthrough") /\ match.fallthrough THEN TRUE
    ELSE IF Has(match, "has_tools") THEN match.has_tools = ctx.has_tools
    ELSE IF Has(match, "estimated_tokens")
    THEN LET tok_match == match.estimated_tokens
         IN  IF Has(tok_match, "less_than") /\ ctx.total_tokens < tok_match.less_than
             THEN TRUE
             ELSE IF Has(tok_match, "greater_than")
                       /\ ctx.total_tokens > tok_match.greater_than
             THEN TRUE
             ELSE FALSE
    ELSE IF Has(match, "message_keywords")
    THEN LET kw_cfg == match.message_keywords
             keywords == IF Has(kw_cfg, "any_of") THEN kw_cfg.any_of ELSE <<>>
             min_matches == IF Has(kw_cfg, "min_matches") THEN kw_cfg.min_matches ELSE 1
         IN  hit_count(keywords, Lower(ctx.system_prompt \o ctx.last_user_message)) >= min_matches
    ELSE FALSE

\* Faulty variant of _match_heuristic: the keywords are looked for in the
\* text of every turn.
_match_heuristic_all_turns(match, ctx) ==
    IF Has(match, "fallthrough") /\ match.fallthrough THEN TRUE
    ELSE IF Has(match, "has_tools") THEN match.has_tools = ctx.has_tools
    ELSE IF Has(match, "estimated_tokens")
    THEN LET tok_match == match.estimated_tokens
         IN  IF Has(tok_match, "less_than") /\ ctx.total_tokens < tok_match.less_than
             THEN TRUE
             ELSE IF Has(tok_match, "greater_than")
                       /\ ctx.total_tokens > tok_match.greater_than
             THEN TRUE
             ELSE FALSE
    ELSE IF Has(match, "message_keywords")
    THEN LET kw_cfg == match.message_keywords
             keywords == IF Has(kw_cfg, "any_of") THEN kw_cfg.any_of ELSE <<>>
             min_matches == IF Has(kw_cfg, "min_matches") THEN kw_cfg.min_matches ELSE 1
         IN  hit_count(keywords, Lower(ctx.full_text)) >= min_matches
    ELSE FALSE

_match_heuristic(match, ctx) ==
    IF Has(match, "fallthrough") /\ match.fallthrough THEN TRUE
    ELSE IF Has(match, "has_tools") THEN match.has_tools = ctx.has_tools
    ELSE IF Has(match, "estimated_tokens")
    THEN LET tok_match == match.estimated_tokens
         IN  IF Has(tok_match, "less_than") /\ ctx.total_tokens < tok_match.less_than
             THEN TRUE
             ELSE IF Has(tok_match, "greater_than")
                       /\ ctx.total_tokens > tok_match.greater_than
             THEN TRUE
             ELSE FALSE
    ELSE IF Has(match, "message_keywords")
    THEN LET kw_cfg == match.message_keywords
             keywords == IF Has(kw_cfg, "any_of") THEN kw_cfg.any_of ELSE <<>>
             min_matches == IF Has(kw_cfg, "min_matches") THEN kw_cfg.min_matches ELSE 1
         IN  hit_count(keywords, Lower(ctx.last_user_message)) >= min_matches
    ELSE FALSE

FirstHeuristic(rules, ctx) ==
    LET hits == {i \in 1..Len(rules) : _match_heuristic(rules[i].match, ctx)}
    IN  IF hits = {} THEN 0 ELSE CHOOSE i \in hits : \A j \in hits : i <= j

_layer_heuristic(cfg, ctx) ==
    IF ~cfg.heuristic_rules.enabled THEN NoDecision
    ELSE LET i == FirstHeuristic(cfg.heuristic_rules.rules, ctx)
         IN  IF i = 0 THEN NoDecision
             ELSE Decision(cfg.heuristic_rules.rules[i].route_to, "heuristic",
                           cfg.heuristic_rules.rules[i].name, 800)

UpperChar(c) ==
    CASE c = "a" -> "A" [] c = "b" -> "B" [] c = "h" -> "H" [] c = "p" -> "P"
      [] c = "r" -> "R" [] c = "t" -> "T" [] OTHER -> c

\* str.upper()
Upper(s) == [i \in 1..Len(s) |-> UpperChar(s[i])]

\* the characters of a text as one string value
RECURSIVE AsString(_)
AsString(s) == IF s = <<>> THEN "" ELSE Head(s) \o AsString(Tail(s))

\* The classify callback of a context: whether one is injected, whether the
\* call raises and what it returns.
NoClassifyFn == [present |-> FALSE, raises |-> FALSE, result |-> <<>>]

\* Faulty variant of _layer_llm_classify: a category that category_routing
\* does not have is routed to the default provider.
_layer_llm_classify_unknown_to_default(cfg, ctx) ==
    IF ~ctx.classify_fn.present THEN NoDecision
    ELSE IF ctx.classify_fn.raises THEN NoDecision
    ELSE LET category == Upper(Strip(ctx.classify_fn.result))
         IN  IF category \in DOMAIN cfg.llm_classifier.category_routing
             THEN Decision(cfg.llm_classifier.category_routing[category],
                           "llm-classify",
                           "classified-as-" \o AsString(category), 700)
             ELSE Decision("deepseek-chat", "llm-classify",
                           "classified-as-" \o AsString(category), 700)

_layer_llm_classify(cfg, ctx) ==
    IF ~ctx.classify_fn.present THEN NoDecision
    ELSE IF ctx.classify_fn.raises THEN NoDecision
    ELSE LET category == Upper(Strip(ctx.classify_fn.result))
         IN  IF category \in DOMAIN cfg.llm_classifier.category_routing
             THEN Decision(cfg.llm_classifier.category_routing[category],
                           "llm-classify",
                           "classified-as-" \o AsString(category), 700)
             ELSE NoDecision

\* first provider of the chain that the snapshot does not report unhealthy
\* and that differs from the original choice; 0 when there is none
FirstHealthyFallback(chain, provider_health, chosen) ==
    LET ok == {i \in 1..Len(chain) :
                 /\ (chain[i] \in DOMAIN provider_health
                        => provider_health[chain[i]].healthy)
                 /\ chain[i] # chosen}
    IN  IF ok = {} THEN 0 ELSE CHOOSE i \in ok : \A j \in ok : i <= j

_validate_health(cfg, decision, ctx) ==
    IF /\ decision.provider_name \in DOMAIN ctx.provider_health
       /\ ~ctx.provider_health[decision.provider_name].healthy
    THEN LET i == FirstHealthyFallback(cfg.fallback_chain, ctx.provider_health,
                                       decision.provider_name)
         IN  IF i = 0 THEN decision
             ELSE Decision(cfg.fallback_chain[i], decision.layer,
                           decision.rule_name \o "→fallback",
                           (decision.confidence * 8) \div 10)
    ELSE decision

DefaultFallbackName == "deepseek-chat"

_RoutingContext(messages, model_requested, has_tools, headers, provider_health) ==
    LET t == _extract_text(messages)
    IN  [system_prompt |-> t.system, last_user_message |-> t.last_user,
         full_text |-> t.full, total_tokens |-> _estimate_tokens(t.full),
         model_requested |-> Strip(Lower(model_requested)),
         has_tools |-> has_tools, headers |-> headers,
         provider_health |-> provider_health, classify_fn |-> NoClassifyFn]

\* Router.route for a context; route raises exactly when _extract_text does
route_ctx(cfg, ctx) ==
    LET s == _layer_static(cfg, ctx)
        h == _layer_heuristic(cfg, ctx)
        c == IF cfg.llm_classifier.enabled THEN _layer_llm_classify(cfg, ctx)
             ELSE NoDecision
    IN  IF s # NoDecision THEN _validate_health(cfg, s, ctx)
        ELSE IF h # NoDecision THEN _validate_health(cfg, h, ctx)
        ELSE IF c # NoDecision THEN _validate_health(cfg, c, ctx)
        ELSE Decision(IF cfg.fallback_chain # <<>> THEN cfg.fallback_chain[1]
                      ELSE DefaultFallbackName,
                      "fallback", "no-match", 300)

\* Faulty variant of route: after a call that a rule decided, the next call
\* returns the no-match decision.
route_alternating(cfg, messages, model_requested, has_tools, headers, provider_health) ==
    IF rt.last.called /\ ~rt.last.raised /\ rt.last.result.layer # "fallback"
    THEN Decision(IF cfg.fallback_chain # <<>> THEN cfg.fallback_chain[1]
                  ELSE DefaultFallbackName,
                  "fallback", "no-match", 300)
    ELSE route_ctx(cfg, _RoutingContext(messages, model_requested, has_tools,
                                        headers, provider_health))

route(cfg, messages, model_requested, has_tools, headers, provider_health) ==
    route_ctx(cfg, _RoutingContext(messages, model_requested, has_tools, headers,
                                   provider_health))

(***************************************************************************)
(* Configuration: three configured providers, the rules of the routing     *)
(* layers.  Which providers have an API key, the fallback chain and        *)
(* whether metrics are enabled are chosen by Init.                         *)
(***************************************************************************)
ProviderNames == {"deepseek-chat", "gemini-flash", "deepseek-reasoner"}

\* ProviderBackend.backend_type
backend_type(name) ==
    IF name = "gemini-flash" THEN "google-genai" ELSE "openai-compat"

StaticRules ==
    [enabled |-> TRUE,
     rules |-> <<
       [name |-> "heartbeat",
        match |-> [system_prompt_contains |-> << <<"h", "b">> >>],
        route_to |-> "gemini-flash"],
       [name |-> "r1",
        match |-> [model_requested |-> << <<"r", "1">> >>],
        route_to |-> "deepseek-reasoner"] >>]

HeuristicRules ==
    [enabled |-> TRUE,
     rules |-> <<
       [name |-> "reasoning",
        match |-> [message_keywords |->
                     [any_of |-> << <<"p", "r">>, <<"t", "h">> >>, min_matches |-> 2]],
        route_to |-> "deepseek-reasoner"],
       [name |-> "tool-use",
        match |-> [has_tools |-> TRUE],
        route_to |-> "deepseek-chat"],
       [name |-> "simple-query",
        match |-> [estimated_tokens |-> [less_than |-> 2]],
        route_to |-> "gemini-flash"],
       [name |-> "reasoning-any",
        match |-> [message_keywords |-> [any_of |-> << <<"w", "h", "y">> >>]],
        route_to |-> "deepseek-reasoner"] >>]

LlmClassifier == [enabled |-> FALSE, category_routing |-> <<>>]

\* The deployments explored: the providers whose API key is set, and the
\* fallback chain (one chain repeats a name, one names a provider that is
\* not configured, one is empty).
Deployments ==
    { [backends |-> {"deepseek-chat", "gemini-flash"}, metrics_enabled |-> TRUE,
       fallback_chain |-> <<"deepseek-chat">>],
      [backends |-> ProviderNames, metrics_enabled |-> FALSE,
       fallback_chain |-> <<"deepseek-chat", "gemini-flash">>],
      [backends |-> {"deepseek-chat", "gemini-flash"}, metrics_enabled |-> FALSE,
       fallback_chain |-> <<"gemini-flash", "deepseek-chat", "gemini-flash">>],
      [backends |-> ProviderNames, metrics_enabled |-> FALSE,
       fallback_chain |-> <<"deepseek-reasoner", "openrouter", "deepseek-chat">>],
      [backends |-> {"gemini-flash"}, metrics_enabled |-> TRUE,
       fallback_chain |-> <<>>] }

\* the deployments explored with two requests in flight
ConcurrentDeployments ==
    { [backends |-> {"deepseek-chat", "gemini-flash"}, metrics_enabled |-> FALSE,
       fallback_chain |-> <<"gemini-flash", "deepseek-chat", "gemini-flash">>] }

RouterConfig ==
    [fallback_chain |-> fallback_chain, static_rules |-> StaticRules,
     heuristic_rules |-> HeuristicRules, llm_classifier |-> LlmClassifier]

(***************************************************************************)
(* Request bodies the clients send.                                        *)
(***************************************************************************)
Auto == <<"a", "u", "t", "o">>
ModelDeepseekChat == <<"d", "e", "e", "p", "s", "e", "e", "k", "-", "c", "h", "a", "t">>
ModelGeminiFlash == <<"g", "e", "m", "i", "n", "i", "-", "f", "l", "a", "s", "h">>

\* the body has no "model" key
Missing == [missing |-> TRUE]

Msg(role, content) == [role |-> role, content |-> content]

Body(model, messages, has_tools) ==
    [model |-> model, messages |-> messages, has_tools |-> has_tools,
     headers |-> <<>>]

Bodies ==
    { Body(Auto, <<Msg("user", Str(<<"h", "i">>))>>, FALSE),
      Body(<<"R", "1">>, <<Msg("user", Str(<<"h", "i">>))>>, FALSE),
      Body(Missing, <<Msg("user", Str(<<"l", "o", "n", "g", "t", "e", "x", "t">>))>>, FALSE),
      Body(Auto, <<Msg("assistant", NullContent)>>, FALSE),
      Body(ModelDeepseekChat, <<Msg("user", Str(<<"h", "i">>))>>, FALSE),
      Body(ModelGeminiFlash, <<Msg("user", Str(<<"h", "i">>))>>, FALSE) }


(***************************************************************************)
(* ProviderBackend.complete (providers.py).  The upstream answers an       *)
(* attempt with one of four outcomes.                                      *)
(***************************************************************************)
Outcomes == {"ok", "http_error", "timeout", "connect_error"}

\* complete() returns the lazy generator of _stream_response without
\* touching the network (providers.py lines 129-130); _complete_google
\* never looks at stream
returns_generator(name, stream) ==
    stream /\ backend_type(name) = "openai-compat"

\* how an awaited, non-generator complete() ends
complete_ends(name, outcome) ==
    IF outcome = "ok" THEN "dict"
    ELSE IF outcome = "connect_error" /\ backend_type(name) = "google-genai"
    THEN "ConnectError"
    ELSE "ProviderError"

\* The text record_failure is given: "HTTP <status>: <body>", "Timeout: <e>"
\* or "Connection error: <e>".  Each starts with a literal prefix, so it is
\* never empty; the model keeps one text for them all.
error_text(outcome) == IF outcome = "ok" THEN "" ELSE "error"

\* ProviderError.detail (the upstream body, or the text above), of which the
\* dispatcher logs the first 500 characters
error_detail(outcome) == IF outcome = "ok" THEN "" ELSE "detail"

\* Faulty variant of complete_health: a success is not recorded before
\* complete() returns.
complete_health_failure_only(h, name, outcome, latency_ms) ==
    IF complete_ends(name, outcome) = "ProviderError"
    THEN record_failure(h, error_text(outcome)) ELSE h

\* health of the backend after an awaited complete()
complete_health(h, name, outcome, latency_ms) ==
    CASE complete_ends(name, outcome) = "dict" -> record_success(h, latency_ms)
      [] complete_ends(name, outcome) = "ProviderError" ->
            record_failure(h, error_text(outcome))
      [] OTHER -> h

\* Faulty variant of after_complete: one health object shared by all backends.
after_complete_shared(hl, name, outcome, latency_ms) ==
    [p \in DOMAIN hl |-> complete_health(hl[p], name, outcome, latency_ms)]

\* every backend owns its ProviderHealth (providers.py line 68): an awaited
\* complete() of backend name updates the health of that backend
after_complete(hl, name, outcome, latency_ms) ==
    [hl EXCEPT ![name] = complete_health(@, name, outcome, latency_ms)]

\* health of the backend after the generator of _stream_response has run
\* up to its first chunk or its exception
stream_health(h, outcome, latency_ms) ==
    CASE outcome = "ok" -> record_success(h, latency_ms)
      [] outcome = "http_error" -> record_failure(h, error_text(outcome))
      [] OTHER -> h

(***************************************************************************)
(* The dispatcher (main.py chat_completions).                              *)
(***************************************************************************)
Range(s) == {s[i] : i \in 1..Len(s)}

RECURSIVE ExtendOrder(_, _, _)
ExtendOrder(order, chain, bk) ==
    IF chain = <<>> THEN order
    ELSE ExtendOrder(IF Head(chain) \notin Range(order) /\ Head(chain) \in bk
                     THEN Append(order, Head(chain)) ELSE order,
                     Tail(chain), bk)

\* Faulty variant of build_attempt_order: the chain is appended without the
\* test  fb not in attempt_order.
build_attempt_order_repeating(chosen, chain, bk) ==
    LET Configured(fb) == fb \in bk
    IN  <<chosen>> \o SelectSeq(chain, Configured)

build_attempt_order(chosen, chain, bk) == ExtendOrder(<<chosen>>, chain, bk)

\* Faulty variant of skipped: an unhealthy provider is skipped even when it
\* is the first of the order.
skipped_any_unhealthy(order, j, hl, bk) ==
    \/ order[j] \notin bk
    \/ ~hl[order[j]].healthy

\* Faulty variant of skipped: the health of a provider is not looked at when
\* its turn comes.
skipped_without_health(order, j, hl, bk) == order[j] \notin bk

\* the loop's skip conditions (main.py lines 205-209)
skipped(order, j, hl, bk) ==
    \/ order[j] \notin bk
    \/ ~hl[order[j]].healthy /\ order[j] # order[1]

\* position of the next provider the loop attempts, from position i on
next_attempt(order, i, hl, bk) ==
    LET go == {j \in i..Len(order) : ~skipped(order, j, hl, bk)}
    IN  IF go = {} THEN 0 ELSE CHOOSE j \in go : \A k \in go : j <= k

NoResponse == [status |-> 0, kind |-> "none", headers |-> {}, attempts |-> <<>>]

IdleReq ==
    [pc |-> "idle", id |-> 0, stream |-> FALSE,
     decision |-> NoDecision, attempt_order |-> <<>>, cur |-> 0,
     errors |-> <<>>, response |-> NoResponse,
     attempts |-> <<>>,    \* history: the attempts made, and the health seen
     outcome |-> "none",   \* history: how the last ended attempt ended
     model |-> Missing,    \* history: the "model" of the request body
     lost |-> 0]           \* history: log writes that failed in the store

Response(status, kind, headers, attempts) ==
    [status |-> status, kind |-> kind, headers |-> headers, attempts |-> attempts]

\* body.get("model", "auto")
model_requested_of(body) == IF body.model = Missing THEN Auto ELSE body.model

\* Faulty variant of routes_directly: the model is looked up among the
\* providers of the configuration file, with or without a backend.
routes_directly_configured(model_requested, bk) ==
    model_requested # Auto /\ AsString(model_requested) \in ProviderNames

\* the test that skips the engine (main.py line 169)
routes_directly(model_requested, bk) ==
    model_requested # Auto /\ AsString(model_requested) \in bk

direct_decision(model) ==
    Decision(AsString(model), "direct", "explicit-model", 1000)

health_map(hl, bk) == [name \in bk |-> to_dict(name, hl[name])]

\* The loop from position i on: it either suspends in an attempt, hands the
\* stream generator to the response, or falls out and answers 502.
run_loop(req, i, hl, bk) ==
    LET j == next_attempt(req.attempt_order, i, hl, bk)
        name == req.attempt_order[j]
        att == [provider |-> name, pos |-> j, healthy |-> hl[name].healthy]
    IN  IF j = 0
        THEN [req EXCEPT !.pc = "done",
                         !.response = Response(502, "provider_error", {}, req.errors)]
        ELSE IF returns_generator(name, req.stream)
        THEN [req EXCEPT !.pc = "streaming", !.cur = j,
                         !.attempts = Append(@, att),
                         !.response = Response(200, "stream",
                                   {<<"X-ClawGate-Provider", name>>}, <<>>)]
        ELSE [req EXCEPT !.pc = "inflight", !.cur = j,
                         !.attempts = Append(@, att)]

\* Faulty variant of log_request: the table keeps the newest row only.
log_request_trimming(rows, enabled, write_ok, provider, decision, success, error, req) ==
    IF ~enabled \/ ~write_ok THEN rows
    ELSE LastN(Append(rows, [id |-> Len(rows) + 1, provider |-> provider,
                             layer |-> decision.layer,
                             rule_name |-> decision.rule_name,
                             success |-> success, error |-> error, req |-> req]), 1)

\* Faulty variant of log_request: the row names the provider of the routing
\* decision, not the provider the attempt was made at.
log_request_decided_provider(rows, enabled, write_ok, provider, decision, success, error, req) ==
    IF ~enabled \/ ~write_ok THEN rows
    ELSE Append(rows, [id |-> Len(rows) + 1, provider |-> decision.provider_name,
                       layer |-> decision.layer, rule_name |-> decision.rule_name,
                       success |-> success, error |-> error, req |-> req])

\* MetricsStore.log_request: one row appended, unless the store is closed
\* (metrics disabled, _conn is None) or the write raises, which is swallowed.
\* req is history: the request on whose behalf the row is written.
log_request(rows, enabled, write_ok, provider, decision, success, error, req) ==
    IF ~enabled \/ ~write_ok THEN rows
    ELSE Append(rows, [id |-> Len(rows) + 1, provider |-> provider,
                       layer |-> decision.layer, rule_name |-> decision.rule_name,
                       success |-> success, error |-> error, req |-> req])

\* the handler tasks that run concurrently on the event loop
Slots == {1, 2}

\* a new request is served by the first free task
FreeSlot(s) ==
    /\ s <= tasks
    /\ reqs[s].pc \in {"idle", "done"}
    /\ \A t \in Slots : t < s => reqs[t].pc \notin {"idle", "done"}

WriteResults == IF metrics_enabled THEN BOOLEAN ELSE {TRUE}

Latencies == 1..MaxLatency

NoSnapshot == [by |-> "none", map |-> <<>>]

\* the task of an answered request has ended when the event loop takes its
\* next step
Retired == [t \in Slots |-> IF reqs[t].pc = "done" THEN IdleReq ELSE reqs[t]]

\* Health a backend can have when the behaviour starts: as constructed, or
\* after earlier traffic that has filled the latency ring (RingSize
\* successes) and has either left the backend without failures or one
\* failure short of the threshold.
RECURSIVE Succeeded(_, _)
Succeeded(h, n) == IF n = 0 THEN h ELSE Succeeded(record_success(h, 1), n - 1)

RECURSIVE Failed(_, _)
Failed(h, n) == IF n = 0 THEN h ELSE Failed(record_failure(h, error_text("timeout")), n - 1)

Warm == Succeeded(NewHealth, RingSize)

NearThreshold == Failed(Warm, MaxFailuresDefault - 1)

StartHealths == {NewHealth, Warm, NearThreshold}

\* history of the unit-level behaviours: the last call made on the health
\* object and whether it found the object healthy
NoCall == [call |-> "none", found_healthy |-> TRUE]

\* route has not been called; _complete_google has built no body
NoRouteCall == [called |-> FALSE]
NoGoogleBody == [built |-> FALSE, calls |-> 0]

\* no query has been made; calc_cost and _safe_db_path have not been called
NoQuery == [query |-> "none"]
NoCostCall == [called |-> FALSE]
NoPathCall == [called |-> FALSE]
NoMatchCall == [called |-> FALSE]

\* config.providers of a deployment: every configured provider, with the
\* API key the environment resolves it to (empty when the variable is unset)
config_providers(d) ==
    [name \in ProviderNames |->
        [api_key |-> IF name \in d.backends THEN <<"s", "k">> ELSE <<>>]]

\* Faulty variant of lifespan_providers: a backend for every configured
\* provider, with or without a key.
lifespan_providers_all(cfg_providers) == DOMAIN cfg_providers

\* lifespan: _providers gets a ProviderBackend for every configured provider
\* that has an API key
lifespan_providers(cfg_providers) ==
    {name \in DOMAIN cfg_providers : cfg_providers[name].api_key # <<>>}

NoListing == [listed |-> FALSE]

InitState(n, deployments, starts) ==
    /\ tasks = n
    /\ \E d \in deployments :
          /\ providers = config_providers(d)
          /\ backends = lifespan_providers(providers)
          /\ fallback_chain = d.fallback_chain
          /\ metrics_enabled = d.metrics_enabled
    /\ \E h0 \in starts : health = [name \in backends |-> h0]
    /\ reqs = [s \in Slots |-> IdleReq]
    /\ log = <<>>
    /\ arrived = 0
    /\ snapshot = NoSnapshot
    /\ models = NoListing
    /\ ph = NewHealth
    /\ ph_hist = <<>>
    /\ ph_run = 0
    /\ ph_op = NoCall
    /\ rt = [last |-> NoRouteCall, kept |-> NoRouteCall, between |-> FALSE]
    /\ gbody = NoGoogleBody

InitWith(n, deployments, starts) ==
    /\ InitState(n, deployments, starts)
    /\ stats = NoQuery
    /\ cost = NoCostCall
    /\ dbpath = NoPathCall
    /\ mt = NoMatchCall

\* one request at a time
Init == InitWith(1, Deployments, StartHealths)

\* two requests in flight at once
InitConcurrent == InitWith(2, ConcurrentDeployments, {NearThreshold})

store_vars == <<stats, cost, dbpath, mt>>
unit_vars == <<ph, ph_hist, ph_run, ph_op, rt, gbody, store_vars>>
config_vars == <<tasks, backends, fallback_chain, metrics_enabled, providers>>

\* Faulty variant of ReceiveInvalid: the routing engine is called, on the
\* health snapshot, before the 400 is answered.
ReceiveInvalidAfterRouting(s) ==
    /\ FreeSlot(s)
    /\ arrived < MaxRequests
    /\ arrived' = arrived + 1
    /\ reqs' = [Retired EXCEPT ![s] =
                  [IdleReq EXCEPT !.pc = "done", !.id = arrived + 1,
                                  !.response = Response(400, "invalid_json", {}, <<>>)]]
    /\ snapshot' = [by |-> "route", map |-> health_map(health, backends)]
    /\ models' = NoListing
    /\ UNCHANGED <<config_vars, health, log, unit_vars>>

\* POST /v1/chat/completions with a body that is not JSON: 400
ReceiveInvalid(s) ==
    /\ FreeSlot(s)
    /\ arrived < MaxRequests
    /\ arrived' = arrived + 1
    /\ reqs' = [Retired EXCEPT ![s] =
                  [IdleReq EXCEPT !.pc = "done", !.id = arrived + 1,
                                  !.response = Response(400, "invalid_json", {}, <<>>)]]
    /\ snapshot' = NoSnapshot
    /\ models' = NoListing
    /\ UNCHANGED <<config_vars, health, log, unit_vars>>

\* POST /v1/chat/completions, direct routing: from the parsed body to the
\* first suspension (the first attempt's upstream call) or to the response
ReceiveDirect(s, body, stream) ==
    /\ FreeSlot(s)
    /\ arrived < MaxRequests
    /\ Len(log) < MaxLog
    /\ routes_directly(model_requested_of(body), backends)
    /\ arrived' = arrived + 1
    /\ LET d == direct_decision(model_requested_of(body))
           r == [IdleReq EXCEPT !.id = arrived + 1, !.stream = stream,
                                !.model = body.model,
                                !.decision = d,
                                !.attempt_order =
                                    build_attempt_order(d.provider_name,
                                                        fallback_chain, backends)]
       IN  reqs' = [Retired EXCEPT ![s] = run_loop(r, 1, health, backends)]
    /\ snapshot' = NoSnapshot
    /\ models' = NoListing
    /\ UNCHANGED <<config_vars, health, log, unit_vars>>

\* POST /v1/chat/completions through the routing engine
ReceiveRouted(s, body, stream) ==
    /\ FreeSlot(s)
    /\ arrived < MaxRequests
    /\ Len(log) < MaxLog
    /\ ~routes_directly(model_requested_of(body), backends)
    /\ arrived' = arrived + 1
    /\ snapshot' = [by |-> "route", map |-> health_map(health, backends)]
    /\ models' = NoListing
    /\ IF extract_text_raises(body.messages)
       THEN reqs' = [Retired EXCEPT ![s] =
                       [IdleReq EXCEPT !.pc = "done", !.id = arrived + 1,
                                       !.stream = stream, !.model = body.model,
                                       !.response = Response(500, "exception", {}, <<>>)]]
       ELSE LET d == route(RouterConfig, body.messages, model_requested_of(body),
                           body.has_tools, body.headers, snapshot'.map)
                r == [IdleReq EXCEPT !.id = arrived + 1, !.stream = stream,
                                     !.model = body.model,
                                     !.decision = d,
                                     !.attempt_order =
                                         build_attempt_order(d.provider_name,
                                                             fallback_chain, backends)]
            IN  reqs' = [Retired EXCEPT ![s] = run_loop(r, 1, health, backends)]
    /\ UNCHANGED <<config_vars, health, log, unit_vars>>

\* latency of an upstream call as the dispatcher's backends measure it
UpstreamLatencies == {1}

SuccessHeaders(req, name) ==
    IF req.stream THEN {<<"X-ClawGate-Provider", name>>}
    ELSE {<<"X-ClawGate-Provider", name>>,
          <<"X-ClawGate-Layer", req.decision.layer>>,
          <<"X-ClawGate-Rule", req.decision.rule_name>>}

\* Faulty variant of UpstreamReplies: an exception of the store leaves
\* log_request and ends the request with 500.
UpstreamRepliesWriteRaises(s, outcome, latency_ms, write_ok) ==
    /\ reqs[s].pc = "inflight"
    /\ LET req == reqs[s]
           name == req.attempt_order[req.cur]
           ends == complete_ends(name, outcome)
           hl == after_complete(health, name, outcome, latency_ms)
           seen == [req EXCEPT !.outcome = outcome]
       IN  /\ health' = hl
           /\ CASE ~write_ok ->
                    /\ log' = log
                    /\ reqs' = [Retired EXCEPT ![s] =
                                  [seen EXCEPT !.pc = "done", !.lost = @ + 1,
                                       !.response = Response(500, "exception", {}, <<>>)]]
                [] ends = "dict" ->
                    /\ log' = log_request(log, metrics_enabled, write_ok, name,
                                          req.decision, TRUE, "", req.id)
                    /\ reqs' = [Retired EXCEPT ![s] =
                                  [seen EXCEPT !.pc = "done",
                                       !.lost = @ + IF write_ok THEN 0 ELSE 1,
                                       !.response =
                                           Response(200, IF req.stream THEN "stream"
                                                         ELSE "json",
                                                    SuccessHeaders(req, name), <<>>)]]
                [] ends = "ProviderError" ->
                    /\ log' = log_request(log, metrics_enabled, write_ok, name,
                                          req.decision, FALSE,
                                          error_detail(outcome), req.id)
                    /\ reqs' = [Retired EXCEPT ![s] =
                                  run_loop([seen EXCEPT !.errors = Append(@, name),
                                                        !.lost = @ + IF write_ok THEN 0
                                                                     ELSE 1],
                                           req.cur + 1, hl, backends)]
                [] OTHER ->
                    /\ log' = log
                    /\ reqs' = [Retired EXCEPT ![s] =
                                  [seen EXCEPT !.pc = "done",
                                       !.response = Response(500, "exception", {}, <<>>)]]
    /\ snapshot' = NoSnapshot
    /\ models' = NoListing
    /\ UNCHANGED <<config_vars, arrived, unit_vars>>

\* The awaited complete() of the current attempt ends: the backend updates
\* its health, the dispatcher logs and either answers or runs the loop on.
\* The handlers are coroutines of one event loop; record_success,
\* record_failure, to_dict and log_request contain no await, so between the
\* upstream reply and the next upstream call no other task runs: one step.
UpstreamReplies(s, outcome, latency_ms, write_ok) ==
    /\ reqs[s].pc = "inflight"
    /\ LET req == reqs[s]
           name == req.attempt_order[req.cur]
           ends == complete_ends(name, outcome)
           hl == after_complete(health, name, outcome, latency_ms)
           seen == [req EXCEPT !.outcome = outcome]
       IN  /\ health' = hl
           /\ CASE ends = "dict" ->
                    /\ log' = log_request(log, metrics_enabled, write_ok, name,
                                          req.decision, TRUE, "", req.id)
                    /\ reqs' = [Retired EXCEPT ![s] =
                                  [seen EXCEPT !.pc = "done",
                                       !.lost = @ + IF write_ok THEN 0 ELSE 1,
                                       !.response =
                                           Response(200, IF req.stream THEN "stream"
                                                         ELSE "json",
                                                    SuccessHeaders(req, name), <<>>)]]
                [] ends = "ProviderError" ->
                    /\ log' = log_request(log, metrics_enabled, write_ok, name,
                                          req.decision, FALSE,
                                          error_detail(outcome), req.id)
                    /\ reqs' = [Retired EXCEPT ![s] =
                                  run_loop([seen EXCEPT !.errors = Append(@, name),
                                                        !.lost = @ + IF write_ok THEN 0
                                                                     ELSE 1],
                                           req.cur + 1, hl, backends)]
                [] OTHER ->
                    /\ log' = log
                    /\ reqs' = [Retired EXCEPT ![s] =
                                  [seen EXCEPT !.pc = "done",
                                       !.response = Response(500, "exception", {}, <<>>)]]
    /\ snapshot' = NoSnapshot
    /\ models' = NoListing
    /\ UNCHANGED <<config_vars, arrived, unit_vars>>

\* The server iterates the body of a StreamingResponse: the generator of
\* _stream_response opens the upstream stream.  The response has started,
\* so an exception raised here reaches no except clause of the dispatcher.
StreamRuns(s, outcome, latency_ms) ==
    /\ reqs[s].pc = "streaming"
    /\ LET req == reqs[s]
           name == req.attempt_order[req.cur]
       IN  /\ health' = [health EXCEPT ![name] = stream_health(@, outcome, latency_ms)]
           /\ reqs' = [Retired EXCEPT ![s] =
                         [req EXCEPT !.pc = "done", !.outcome = outcome]]
    /\ snapshot' = NoSnapshot
    /\ models' = NoListing
    /\ UNCHANGED <<config_vars, log, arrived, unit_vars>>

\* GET /health
HealthEndpoint ==
    /\ snapshot' = [by |-> "health", map |-> health_map(health, backends)]
    /\ models' = NoListing
    /\ reqs' = Retired
    /\ UNCHANGED <<config_vars, health, log, arrived, unit_vars>>

\* GET /v1/models: the virtual model "auto" and one entry per backend
list_models(bk) ==
    {[id |-> "auto", owned_by |-> "clawgate"]}
    \cup {[id |-> name, owned_by |-> backend_type(name)] : name \in bk}

ListModels ==
    /\ models' = [listed |-> TRUE, data |-> list_models(backends)]
    /\ snapshot' = NoSnapshot
    /\ reqs' = Retired
    /\ UNCHANGED <<config_vars, health, log, arrived, unit_vars>>

Next ==
    \/ \E s \in Slots : ReceiveInvalid(s)
    \/ \E s \in Slots, body \in Bodies, stream \in BOOLEAN : ReceiveDirect(s, body, stream)
    \/ \E s \in Slots, body \in Bodies, stream \in BOOLEAN : ReceiveRouted(s, body, stream)
    \/ \E s \in Slots, outcome \in Outcomes, lat \in UpstreamLatencies,
          write_ok \in WriteResults : UpstreamReplies(s, outcome, lat, write_ok)
    \/ \E s \in Slots, outcome \in Outcomes, lat \in UpstreamLatencies :
          StreamRuns(s, outcome, lat)
    \/ HealthEndpoint
    \/ ListModels

Spec == Init /\ [][Next]_vars

(***************************************************************************)
(* One ProviderHealth object driven call by call.  Latency samples are     *)
(* drawn from Latencies and taken non-decreasing, which keeps the number   *)
(* of histories polynomial.                                                *)
(***************************************************************************)
dispatch_vars == <<config_vars, health, reqs, log, arrived, snapshot, models>>

CallRecordSuccess(latency_ms) ==
    /\ Len(ph_hist) < MaxSuccesses
    /\ IF ph_hist = <<>> THEN TRUE ELSE ph_hist[Len(ph_hist)] <= latency_ms
    /\ ph' = record_success(ph, latency_ms)
    /\ ph_hist' = Append(ph_hist, latency_ms)
    /\ ph_run' = 0
    /\ ph_op' = [call |-> "record_success", found_healthy |-> ph.healthy]
    /\ UNCHANGED <<dispatch_vars, rt, gbody, store_vars>>

CallRecordFailure(error) ==
    /\ ph_run < MaxFailRun
    /\ ph' = record_failure(ph, error)
    /\ ph_run' = ph_run + 1
    /\ ph_op' = [call |-> "record_failure", found_healthy |-> ph.healthy]
    /\ UNCHANGED <<ph_hist, dispatch_vars, rt, gbody, store_vars>>

ErrorTexts == {error_text("http_error"), "HTTP 503: overloaded"}

NextHealth ==
    \/ \E latency_ms \in Latencies : CallRecordSuccess(latency_ms)
    \/ \E error \in ErrorTexts : CallRecordFailure(error)

InitHealth ==
    InitWith(1, {CHOOSE d \in Deployments : d.fallback_chain = <<>>}, {Warm})

SpecHealth == InitHealth /\ [][NextHealth]_vars


(***************************************************************************)
(* Router.route called directly, as the tests call it.  rt.last is the     *)
(* last call, rt.kept an earlier call kept for comparison.                 *)
(***************************************************************************)
\* the configuration of a call: which layers are enabled
Layers(static, heuristic, llm) ==
    [static |-> static, heuristic |-> heuristic, llm |-> llm]

AllLayers == Layers(TRUE, TRUE, FALSE)

ConfigWith(layers) ==
    [RouterConfig EXCEPT !.static_rules.enabled = layers.static,
                         !.heuristic_rules.enabled = layers.heuristic,
                         !.llm_classifier.enabled = layers.llm]

RouteInput(messages, model_requested, has_tools, layers) ==
    [messages |-> messages, model_requested |-> model_requested,
     has_tools |-> has_tools, headers |-> <<>>, layers |-> layers]

Hi == Str(<<"h", "i">>)
LongText == Str(<<"l", "o", "n", "g", "t", "e", "x", "t">>)
Keywords == Str(<<"w", "h", "y", " ", "P", "r", " ", "t", "H">>)
OneKeyword == Str(<<"w", "h", "y", " ", "p", "r", "x", " ", "a">>)
Heartbeat == Str(<<"H", "B">>)

\* the message lists route is called with
RouteMessages ==
    { <<Msg("user", Hi)>>,
      <<Msg("user", LongText)>>,
      <<Msg("system", Heartbeat), Msg("user", Hi)>>,
      <<Msg("system", Heartbeat), Msg("user", Keywords)>>,
      <<Msg("system", Keywords), Msg("user", LongText)>>,
      <<Msg("user", Keywords)>>,
      <<Msg("user", OneKeyword)>>,
      <<Msg("user", Keywords), Msg("assistant", Hi), Msg("user", LongText)>>,
      <<Msg("user", Parts(<<TextPart(<<"p", "r">>), ImagePart, NonDictPart,
                            TextPart(<<"t", "h">>)>>))>>,
      <<Msg("system", NullContent), Msg("user", Hi)>>,
      <<Msg("user", LongText), Msg("assistant", NullContent), Msg("user", Hi)>>,
      <<Msg("user", NullContent)>> }

RouteInputs ==
    {RouteInput(m, Auto, FALSE, AllLayers) : m \in RouteMessages}
    \cup {RouteInput(m, <<"R", "1">>, FALSE, AllLayers) :
             m \in {<<Msg("user", Hi)>>, <<Msg("user", LongText)>>}}
    \cup {RouteInput(m, Auto, TRUE, AllLayers) :
             m \in {<<Msg("user", LongText)>>, <<Msg("user", Keywords)>>}}
    \cup {RouteInput(<<Msg("system", Heartbeat), Msg("user", Hi)>>, Auto, FALSE, l) :
             l \in {Layers(FALSE, TRUE, FALSE), Layers(TRUE, FALSE, TRUE),
                    Layers(FALSE, FALSE, TRUE)}}

\* a provider_health argument: the snapshot of backends of which those in
\* unhealthy have reached the failure threshold
SnapshotOf(unhealthy) ==
    [name \in backends |->
        to_dict(name, IF name \in unhealthy
                      THEN Failed(NewHealth, MaxFailuresDefault) ELSE NewHealth)]

\* provider_health=None, or a snapshot
HealthSnapshots ==
    {<<>>} \cup {SnapshotOf(u) : u \in SUBSET backends}

\* Faulty variant of layer_decision: the heuristic layer runs first.
layer_decision_heuristic_first(cfg, ctx) ==
    LET s == _layer_static(cfg, ctx)
        h == _layer_heuristic(cfg, ctx)
        c == IF cfg.llm_classifier.enabled THEN _layer_llm_classify(cfg, ctx)
             ELSE NoDecision
    IN  IF h # NoDecision THEN h ELSE IF s # NoDecision THEN s ELSE c

\* the decision of the first layer that produces one, before health
\* validation (router.py lines 99-116)
layer_decision(cfg, ctx) ==
    LET s == _layer_static(cfg, ctx)
        h == _layer_heuristic(cfg, ctx)
        c == IF cfg.llm_classifier.enabled THEN _layer_llm_classify(cfg, ctx)
             ELSE NoDecision
    IN  IF s # NoDecision THEN s ELSE IF h # NoDecision THEN h ELSE c

\* one call of route: whether it raised, what it returned, and as history
\* what the layers decided and what _match_heuristic returns for each
\* heuristic rule on the context of the call
route_call(in, provider_health) ==
    IF extract_text_raises(in.messages)
    THEN [called |-> TRUE, input |-> in, provider_health |-> provider_health,
          raised |-> TRUE, layered |-> NoDecision, result |-> NoDecision,
          heuristic_match |-> <<>>]
    ELSE LET cfg == ConfigWith(in.layers)
             ctx == _RoutingContext(in.messages, in.model_requested, in.has_tools,
                                    in.headers, provider_health)
         IN  [called |-> TRUE, input |-> in, provider_health |-> provider_health,
              raised |-> FALSE,
              layered |-> layer_decision(cfg, ctx),
              result |-> route(cfg, in.messages, in.model_requested, in.has_tools,
                               in.headers, provider_health),
              heuristic_match |->
                  [i \in 1..Len(cfg.heuristic_rules.rules) |->
                      _match_heuristic(cfg.heuristic_rules.rules[i].match, ctx)]]

CallRoute(in, provider_health) ==
    /\ rt' = [rt EXCEPT !.last = route_call(in, provider_health),
                        !.between = IF rt.kept.called /\ in # rt.kept.input
                                    THEN TRUE ELSE @]
    /\ UNCHANGED <<dispatch_vars, ph, ph_hist, ph_run, ph_op, gbody, store_vars>>

\* an earlier call is remembered
KeepCall ==
    /\ rt.last.called
    /\ rt' = [rt EXCEPT !.kept = rt.last, !.between = FALSE]
    /\ UNCHANGED <<dispatch_vars, ph, ph_hist, ph_run, ph_op, gbody, store_vars>>

NextRoute ==
    \E in \in RouteInputs, provider_health \in HealthSnapshots :
        CallRoute(in, provider_health)

\* Calls compared with a kept earlier call: message lists that share their
\* last user message and differ in the system prompt or in earlier turns.
RepeatInputs ==
    {in \in RouteInputs :
        /\ in.layers = AllLayers
        /\ in.model_requested = Auto
        /\ ~extract_text_raises(in.messages)}

RepeatSnapshots == {<<>>, SnapshotOf({}), SnapshotOf(backends)}

NextRepeat ==
    \/ \E in \in RepeatInputs, provider_health \in RepeatSnapshots :
          CallRoute(in, provider_health)
    \/ KeepCall

\* the fallback chains route is configured with
RouteDeployments ==
    {d \in Deployments : Len(d.fallback_chain) # 1}

InitRoute == InitWith(1, RouteDeployments, {NewHealth})

SpecRoute == InitRoute /\ [][NextRoute]_vars

SpecRepeat == InitRoute /\ [][NextRepeat]_vars

(***************************************************************************)
(* ProviderBackend._complete_google (providers.py) called on the           *)
(* google-genai backend: the request body it builds from the messages,     *)
(* and how the call ends.  The text of a part is the message content as    *)
(* the code passes it on: a string, None or a list.                        *)
(***************************************************************************)
PyNone == [none |-> TRUE]
Value(v) == [value |-> v]

\* Python truthiness of a message content: None, "" and [] are false
Truthy(content) ==
    CASE content.kind = "null" -> FALSE
      [] content.kind = "str" -> content.text # <<>>
      [] OTHER -> content.parts # <<>>

\* the contents list after the loop over the messages (lines 195-205)
RECURSIVE google_contents(_)
google_contents(messages) ==
    IF messages = <<>> THEN <<>>
    ELSE LET msg == Head(messages)
             text == msg.content
         IN  (IF msg.role = "system" THEN <<>>
              ELSE IF msg.role = "assistant"
              THEN <<[role |-> "model", parts |-> <<[text |-> text]>>]>>
              ELSE <<[role |-> "user", parts |-> <<[text |-> text]>>]>>)
             \o google_contents(Tail(messages))

\* system_instruction after the loop: the content of the last system
\* message, None when there is none
system_instruction(messages) ==
    LET sys == {i \in 1..Len(messages) : messages[i].role = "system"}
    IN  IF sys = {} THEN NullContent
        ELSE messages[CHOOSE i \in sys : \A j \in sys : j <= i].content

\* gen_config (lines 211-215)
gen_config(max_tokens, temperature) ==
    (IF max_tokens # PyNone /\ max_tokens.value # 0
     THEN [maxOutputTokens |-> max_tokens.value] ELSE <<>>)
    @@ (IF temperature # PyNone THEN [temperature |-> temperature.value] ELSE <<>>)

\* the request body posted to generateContent (lines 207-217)
google_body(messages, max_tokens, temperature) ==
    [contents |-> google_contents(messages)]
    @@ (IF Truthy(system_instruction(messages))
        THEN [systemInstruction |->
                 [parts |-> <<[text |-> system_instruction(messages)]>>]]
        ELSE <<>>)
    @@ (IF gen_config(max_tokens, temperature) # <<>>
        THEN [generationConfig |-> gen_config(max_tokens, temperature)]
        ELSE <<>>)

GoogleBackend == "gemini-flash"

\* one call of _complete_google: the body is built and posted, and the
\* answer of the upstream decides how the call ends and what the health of
\* the backend records
CallCompleteGoogle(messages, max_tokens, temperature, outcome, latency_ms) ==
    /\ gbody.calls < MaxGoogleCalls
    /\ gbody' = [built |-> TRUE, calls |-> gbody.calls + 1,
                 messages |-> messages,
                 body |-> google_body(messages, max_tokens, temperature),
                 ends |-> complete_ends(GoogleBackend, outcome)]
    /\ ph' = complete_health(ph, GoogleBackend, outcome, latency_ms)
    /\ UNCHANGED <<dispatch_vars, ph_hist, ph_run, ph_op, rt, store_vars>>

\* the message lists _complete_google is called with
GoogleMessages ==
    RouteMessages \cup {<<Msg("system", Str(<<>>)), Msg("user", Hi)>>}

NextGoogle ==
    \E messages \in GoogleMessages, max_tokens \in {PyNone, Value(64)},
       temperature \in {PyNone, Value(0)}, outcome \in Outcomes,
       latency_ms \in UpstreamLatencies :
        CallCompleteGoogle(messages, max_tokens, temperature, outcome, latency_ms)

InitGoogle ==
    InitWith(1, {d \in Deployments : d.backends = {GoogleBackend}}, {NewHealth})

SpecGoogle == InitGoogle /\ [][NextGoogle]_vars

(***************************************************************************)
(* MetricsStore (metrics.py) driven directly: rows written by log_request  *)
(* and the queries of the dashboard.  A query is a SELECT over the rows;   *)
(* of the columns the model keeps those of the rows above, so a sum or an  *)
(* average over tokens, cost or latency is not part of a result.  Rows are *)
(* written with non-decreasing timestamps, so the rows a time window       *)
(* selects are the newest ones.                                            *)
(***************************************************************************)
Failures(rows) == Cardinality({i \in 1..Len(rows) : ~rows[i].success})

\* SELECT COUNT(*), SUM(CASE WHEN success=0 ...) FROM requests; a SUM over
\* no rows is NULL
get_totals(rows) ==
    [total_requests |-> Len(rows),
     total_failures |-> IF rows = <<>> THEN Null ELSE Failures(rows)]

\* ... GROUP BY provider
get_provider_summary(rows) ==
    {[provider |-> p,
      requests |-> Len(SelectSeq(rows, LAMBDA r : r.provider = p)),
      failures |-> Failures(SelectSeq(rows, LAMBDA r : r.provider = p))] :
        p \in {rows[i].provider : i \in 1..Len(rows)}}

\* ... WHERE success=1 GROUP BY layer, rule_name, provider
get_routing_breakdown(rows) ==
    LET ok == SelectSeq(rows, LAMBDA r : r.success)
        Key(r) == <<r.layer, r.rule_name, r.provider>>
    IN  {[layer |-> k[1], rule_name |-> k[2], provider |-> k[3],
          requests |-> Len(SelectSeq(ok, LAMBDA r : Key(r) = k))] :
            k \in {Key(ok[i]) : i \in 1..Len(ok)}}

\* ... WHERE timestamp>=cutoff: the requests of the buckets together, for
\* a window that holds the newest in_window rows
get_hourly_series(rows, in_window) ==
    [requests |-> Len(LastN(rows, in_window))]

get_daily_totals(rows, in_window) ==
    [requests |-> Len(LastN(rows, in_window)),
     failures |-> Failures(LastN(rows, in_window))]

\* SELECT * FROM requests ORDER BY timestamp DESC LIMIT ?
RECURSIVE Reverse(_)
Reverse(seq) == IF seq = <<>> THEN <<>> ELSE Append(Reverse(Tail(seq)), Head(seq))

get_recent(rows, limit) == Reverse(LastN(rows, limit))

\* _q: no connection, no rows
_q(enabled, result, empty) == IF enabled THEN result ELSE empty

\* the rows the store is asked to write
StoreDecisions(provider) ==
    {direct_decision(<<provider>>), Decision(provider, "fallback", "no-match", 300)}

StoreLogRequest(provider, decision, success, write_ok) ==
    /\ Len(log) < MaxRows
    /\ log' = log_request(log, metrics_enabled, write_ok, provider, decision,
                          success, IF success THEN "" ELSE "detail", 0)
    /\ stats' = NoQuery
    /\ UNCHANGED <<config_vars, health, reqs, arrived, snapshot, models,
                   ph, ph_hist, ph_run, ph_op, rt, gbody, cost, dbpath, mt>>

Answer(query, result) ==
    /\ stats' = [query |-> query, result |-> result]
    /\ UNCHANGED <<dispatch_vars, ph, ph_hist, ph_run, ph_op, rt, gbody, cost, dbpath, mt>>

GetTotals == Answer("get_totals", _q(metrics_enabled, get_totals(log), <<>>))

GetProviderSummary ==
    Answer("get_provider_summary", _q(metrics_enabled, get_provider_summary(log), {}))

GetRoutingBreakdown ==
    Answer("get_routing_breakdown", _q(metrics_enabled, get_routing_breakdown(log), {}))

GetHourlySeries(in_window) ==
    Answer("get_hourly_series",
           _q(metrics_enabled, get_hourly_series(log, in_window), <<>>))

GetDailyTotals(in_window) ==
    Answer("get_daily_totals",
           _q(metrics_enabled, get_daily_totals(log, in_window), <<>>))

GetRecent(limit) ==
    Answer("get_recent", _q(metrics_enabled, get_recent(log, limit), <<>>))

NextStore ==
    \/ \E provider \in backends, success \in BOOLEAN, write_ok \in BOOLEAN :
          \E decision \in StoreDecisions(provider) :
             StoreLogRequest(provider, decision, success, write_ok)
    \/ GetTotals
    \/ GetProviderSummary
    \/ GetRoutingBreakdown
    \/ \E in_window \in 0..Len(log) : GetHourlySeries(in_window)
    \/ \E in_window \in 0..Len(log) : GetDailyTotals(in_window)
    \/ \E limit \in 1..MaxRows : GetRecent(limit)

InitStore ==
    InitWith(1, {d \in Deployments : d.backends = {"deepseek-chat", "gemini-flash"}},
             {NewHealth})

SpecStore == InitStore /\ [][NextStore]_vars

(***************************************************************************)
(* calc_cost (metrics.py) called directly.  Prices are whole numbers of    *)
(* 1e-6 USD per million tokens; a cost is the exact quotient the code      *)
(* computes in floating point, kept as a numerator over Million, in        *)
(* 1e-6 USD.                                                               *)
(***************************************************************************)
\* pricing.get(key, default)
PricingGet(pricing, key, default) ==
    IF key \in DOMAIN pricing THEN pricing[key] ELSE default

\* Faulty variant of calc_cost: cache_read defaults to 0.
calc_cost_free_cache(prompt_tokens, completion_tokens, pricing, cache_hit, cache_miss) ==
    LET out == PricingGet(pricing, "output", 0)
        input_cost ==
            IF cache_hit # 0 \/ cache_miss # 0
            THEN cache_hit * PricingGet(pricing, "cache_read", 0)
                 + cache_miss * PricingGet(pricing, "input", 0)
            ELSE prompt_tokens * PricingGet(pricing, "input", 0)
    IN  [num |-> input_cost + completion_tokens * out, den |-> Million]

\* Faulty variant of calc_cost: hit tokens at the input rate, miss tokens
\* at the cache_read rate.
calc_cost_swapped_rates(prompt_tokens, completion_tokens, pricing, cache_hit, cache_miss) ==
    LET out == PricingGet(pricing, "output", 0)
        cache_rate == PricingGet(pricing, "cache_read", PricingGet(pricing, "input", 0))
        miss_rate == PricingGet(pricing, "input", 0)
        input_cost ==
            IF cache_hit # 0 \/ cache_miss # 0
            THEN cache_hit * miss_rate + cache_miss * cache_rate
            ELSE prompt_tokens * PricingGet(pricing, "input", 0)
    IN  [num |-> input_cost + completion_tokens * out, den |-> Million]

calc_cost(prompt_tokens, completion_tokens, pricing, cache_hit, cache_miss) ==
    LET out == PricingGet(pricing, "output", 0)
        cache_rate == PricingGet(pricing, "cache_read", PricingGet(pricing, "input", 0))
        miss_rate == PricingGet(pricing, "input", 0)
        input_cost ==
            IF cache_hit # 0 \/ cache_miss # 0
            THEN cache_hit * cache_rate + cache_miss * miss_rate
            ELSE prompt_tokens * PricingGet(pricing, "input", 0)
    IN  [num |-> input_cost + completion_tokens * out, den |-> Million]

\* the pricing tables of the providers: with and without cache_read, with
\* cache_read below, at and above input, and without any price
Pricings ==
    { [input |-> 3, output |-> 5],
      [input |-> 3, output |-> 5, cache_read |-> 1],
      [input |-> 3, output |-> 5, cache_read |-> 3],
      [input |-> 3, output |-> 5, cache_read |-> 4],
      [output |-> 5],
      <<>> }

CostArgs ==
    [prompt_tokens : 0..MaxTokens, completion_tokens : 0..MaxTokens,
     pricing : Pricings, cache_hit : 0..MaxTokens, cache_miss : 0..MaxTokens]

cost_of(args) ==
    calc_cost(args.prompt_tokens, args.completion_tokens, args.pricing,
              args.cache_hit, args.cache_miss)

\* calc_cost is called with the arguments drawn
CallCalcCost ==
    /\ ~cost.called
    /\ cost' = [called |-> TRUE, args |-> cost.args, result |-> cost_of(cost.args),
                before |-> NoCostCall]
    /\ UNCHANGED <<dispatch_vars, ph, ph_hist, ph_run, ph_op, rt, gbody, stats, dbpath, mt>>

\* calc_cost is called again with one token moved from cache_miss to
\* cache_hit; the call before is kept
CallWithOneMoreHit ==
    /\ cost.called
    /\ cost.args.cache_miss > 0
    /\ LET args == [cost.args EXCEPT !.cache_hit = @ + 1, !.cache_miss = @ - 1]
       IN  cost' = [called |-> TRUE, args |-> args, result |-> cost_of(args),
                    before |-> [args |-> cost.args, result |-> cost.result]]
    /\ UNCHANGED <<dispatch_vars, ph, ph_hist, ph_run, ph_op, rt, gbody, stats, dbpath, mt>>

NextCost == CallCalcCost \/ CallWithOneMoreHit

InitCost ==
    /\ InitState(1, {d \in Deployments : d.fallback_chain = <<>>}, {NewHealth})
    /\ stats = NoQuery
    /\ dbpath = NoPathCall
    /\ mt = NoMatchCall
    /\ \E args \in CostArgs : cost = [called |-> FALSE, args |-> args]

SpecCost == InitCost /\ [][NextCost]_vars

(***************************************************************************)
(* _safe_db_path (config.py) called directly, on a configured value and    *)
(* an environment.  Strings are sequences of characters.                   *)
(***************************************************************************)
\* the variable is not in the environment
Unset == [unset |-> TRUE]

\* os.environ.get(name, "")
EnvGet(var) == IF var = Unset THEN <<>> ELSE var.value

\* str.startswith
StartsWith(s, prefix) ==
    Len(s) >= Len(prefix) /\ SubSeq(s, 1, Len(prefix)) = prefix

\* the components of a path: the pieces between slashes, without the empty
\* ones and without "."
RECURSIVE Components(_, _)
Components(s, piece) ==
    LET done == IF piece = <<>> \/ piece = <<".">> THEN <<>> ELSE <<piece>>
    IN  IF s = <<>> THEN done
        ELSE IF Head(s) = "/" THEN done \o Components(Tail(s), <<>>)
        ELSE Components(Tail(s), Append(piece, Head(s)))

\* str(Path(base) / names[1] / ... ) for relative names
PathUnder(base, names) ==
    (IF base # <<>> /\ base[1] = "/" THEN <<"/">> ELSE <<>>)
    \o JoinWith(<<"/">>, Components(base, <<>>) \o names)

DbName == <<"c", "l", "a", "w", "g", "a", "t", "e", ".", "d", "b">>
DotSlashDbName == <<".", "/">> \o DbName
AppDir == <<"c", "l", "a", "w", "g", "a", "t", "e">>

\* Path.home()
Home == <<"/", "h">>

\* Faulty variant of _safe_db_path: the configured value is looked at
\* before the environment.
_safe_db_path_configured_first(configured, env_db_path, xdg_data_home) ==
    LET env_path == Strip(EnvGet(env_db_path))
        p == IF configured = PyNone THEN <<>> ELSE Strip(configured.value)
        xdg == Strip(EnvGet(xdg_data_home))
    IN  IF /\ configured # PyNone /\ configured.value # <<>>
           /\ p # <<>> /\ ~StartsWith(p, DotSlashDbName) /\ p # DbName
        THEN p
        ELSE IF env_path # <<>> THEN env_path
        ELSE IF xdg # <<>> THEN PathUnder(xdg, <<AppDir, DbName>>)
        ELSE PathUnder(Home, <<<<".", "l", "o", "c", "a", "l">>, <<"s", "h", "a", "r", "e">>, AppDir, DbName>>)

_safe_db_path(configured, env_db_path, xdg_data_home) ==
    LET env_path == Strip(EnvGet(env_db_path))
        p == IF configured = PyNone THEN <<>> ELSE Strip(configured.value)
        xdg == Strip(EnvGet(xdg_data_home))
    IN  IF env_path # <<>> THEN env_path
        ELSE IF /\ configured # PyNone /\ configured.value # <<>>
                /\ p # <<>> /\ ~StartsWith(p, DotSlashDbName) /\ p # DbName
        THEN p
        ELSE IF xdg # <<>> THEN PathUnder(xdg, <<AppDir, DbName>>)
        ELSE PathUnder(Home, <<<<".", "l", "o", "c", "a", "l">>, <<"s", "h", "a", "r", "e">>, AppDir, DbName>>)

\* values of CLAWGATE_DB_PATH, of metrics.db_path and of XDG_DATA_HOME
EnvDbPaths ==
    {Unset} \cup {Value(s) : s \in {<<>>, <<" ">>, <<"/", "e">>, <<" ", "/", "e", " ">>}}

ConfiguredPaths ==
    {PyNone} \cup
    {Value(s) : s \in
        {<<>>, <<" ">>, DbName, DotSlashDbName, <<" ">> \o DbName,
         DotSlashDbName \o <<"-", "w", "a", "l">>,
         <<".", "/", "d", "/", "m", ".", "d", "b">>, <<"m", ".", "d", "b">>,
         <<"/", "c">>, <<" ", "/", "c">>}}

XdgDataHomes ==
    {Unset} \cup
    {Value(s) : s \in {<<>>, <<" ">>, <<"/", "x">>, <<"/", "x", "/">>, <<".", "/", "x">>}}

CallSafeDbPath ==
    /\ ~dbpath.called
    /\ dbpath' = [dbpath EXCEPT !.called = TRUE,
                                !.result = _safe_db_path(dbpath.configured,
                                                         dbpath.env_db_path,
                                                         dbpath.xdg_data_home)]
    /\ UNCHANGED <<dispatch_vars, ph, ph_hist, ph_run, ph_op, rt, gbody, stats, cost, mt>>

NextPath == CallSafeDbPath

InitPath ==
    /\ InitState(1, {d \in Deployments : d.fallback_chain = <<>>}, {NewHealth})
    /\ stats = NoQuery
    /\ cost = NoCostCall
    /\ mt = NoMatchCall
    /\ \E configured \in ConfiguredPaths, env_db_path \in EnvDbPaths,
          xdg_data_home \in XdgDataHomes :
          dbpath = [called |-> FALSE, configured |-> configured,
                    env_db_path |-> env_db_path, xdg_data_home |-> xdg_data_home,
                    result |-> <<>>]

SpecPath == InitPath /\ [][NextPath]_vars

(***************************************************************************)
(* Router._match_static and Router._match_heuristic (router.py) called     *)
(* directly on a match object and the context of a request.                *)
(***************************************************************************)
SourceHeader == "x-openclaw-source"

\* the match objects of static rules the matcher is called with; the last
\* ones have no key the matcher knows
StaticLeaves ==
    { [model_requested |-> << <<"r", "1">> >>],
      [model_requested |-> << <<"R", "1">>, <<"p", "r", "o">> >>],
      [system_prompt_contains |-> << <<"H", "b">> >>],
      [header_contains |-> (SourceHeader :> << <<"B", "a">> >>)],
      [model_requested |-> << <<"r", "1">> >>,
       system_prompt_contains |-> << <<"h", "b">> >>],
      [model_requested |-> << <<"r", "1">> >>,
       header_contains |-> (SourceHeader :> << <<"b", "a", "t">> >>)],
      [system_prompt_contains |-> << <<"h", "b">> >>,
       header_contains |-> (SourceHeader :> << <<"b", "a", "t">> >>)],
      [model_requested |-> << <<"r", "1">> >>,
       system_prompt_contains |-> << <<"h", "b">> >>,
       header_contains |-> (SourceHeader :> << <<"b", "a", "t">> >>)],
      [has_tools |-> TRUE],
      <<>> }

StaticMatches ==
    StaticLeaves
    \cup { [any |-> <<>>],
           [any |-> << [model_requested |-> << <<"r", "1">> >>],
                       [system_prompt_contains |-> << <<"h", "b">> >>] >>],
           [any |-> << [any |-> << [header_contains |->
                                       (SourceHeader :> << <<"b", "a", "t">> >>)] >>],
                       <<>> >>],
           [any |-> << [system_prompt_contains |-> << <<"h", "b">> >>] >>,
            model_requested |-> << <<"r", "1">> >>] }

\* the match objects of heuristic rules the matcher is called with
HeuristicMatches ==
    { [estimated_tokens |-> [less_than |-> 2]],
      [estimated_tokens |-> [greater_than |-> 2]],
      [estimated_tokens |-> [less_than |-> 3, greater_than |-> 1]],
      [estimated_tokens |-> [less_than |-> 2, greater_than |-> 2]],
      [estimated_tokens |-> <<>>],
      [estimated_tokens |-> [less_than |-> 2],
       message_keywords |-> [any_of |-> << <<"w", "h", "y">> >>]],
      [has_tools |-> TRUE],
      [has_tools |-> FALSE, estimated_tokens |-> [less_than |-> 2]],
      [fallthrough |-> TRUE],
      [fallthrough |-> FALSE, estimated_tokens |-> [greater_than |-> 1]],
      [message_keywords |-> [any_of |-> << <<"w", "h", "y">> >>]],
      <<>> }

TwelveChars == Str(<<"l", "o", "n", "g", "t", "e", "x", "t", "w", "h", "y", "!">>)

\* the contexts a matcher is called with, as the arguments of route that
\* produce them
MatchContexts ==
    { [messages |-> m, model_requested |-> model, has_tools |-> t, headers |-> h] :
        m \in { <<Msg("user", Hi)>>,
                <<Msg("user", LongText)>>,
                <<Msg("user", TwelveChars)>>,
                <<Msg("system", Heartbeat), Msg("user", Hi)>> },
        model \in { Auto, <<"R", "1", " ">>, <<"p", "r">> },
        t \in BOOLEAN,
        h \in { <<>>, SourceHeader :> <<"B", "A", "T">>,
                SourceHeader :> <<"b">> } }

context_of(c) ==
    _RoutingContext(c.messages, c.model_requested, c.has_tools, c.headers, <<>>)

\* self._match_static(match, ctx); elements holds what the matcher returns
\* for each element of an 'any' list
CallMatchStatic ==
    /\ ~mt.called
    /\ mt.fn = "_match_static"
    /\ mt' = [mt EXCEPT
                !.called = TRUE,
                !.result = _match_static(mt.match, context_of(mt.context)),
                !.elements =
                    IF Has(mt.match, "any")
                    THEN [i \in 1..Len(mt.match.any) |->
                             _match_static(mt.match.any[i], context_of(mt.context))]
                    ELSE <<>>]
    /\ UNCHANGED <<dispatch_vars, ph, ph_hist, ph_run, ph_op, rt, gbody, stats, cost,
                   dbpath>>

\* self._match_heuristic(match, ctx)
CallMatchHeuristic ==
    /\ ~mt.called
    /\ mt.fn = "_match_heuristic"
    /\ mt' = [mt EXCEPT
                !.called = TRUE,
                !.result = _match_heuristic(mt.match, context_of(mt.context))]
    /\ UNCHANGED <<dispatch_vars, ph, ph_hist, ph_run, ph_op, rt, gbody, stats, cost,
                   dbpath>>

NextMatch == CallMatchStatic \/ CallMatchHeuristic

MatchCall(fn, match, context) ==
    [called |-> FALSE, fn |-> fn, match |-> match, context |-> context,
     result |-> FALSE, elements |-> <<>>]

InitMatch ==
    /\ InitState(1, {d \in Deployments : d.fallback_chain = <<>>}, {NewHealth})
    /\ stats = NoQuery
    /\ cost = NoCostCall
    /\ dbpath = NoPathCall
    /\ \E context \in MatchContexts :
          \/ \E match \in StaticMatches : mt = MatchCall("_match_static", match, context)
          \/ \E match \in HeuristicMatches :
                mt = MatchCall("_match_heuristic", match, context)

SpecMatch == InitMatch /\ [][NextMatch]_vars

(***************************************************************************)
(* The LLM classifier layer (router.py): Router._layer_llm_classify called *)
(* directly on a context that carries a classify callback, and             *)
(* Router.route called the way chat_completions calls it, with the         *)
(* classifier enabled.                                                     *)
(***************************************************************************)
\* llm_classifier.category_routing: category -> provider
CategoryRouting ==
    (<<"A", "R", "T">> :> "deepseek-reasoner") @@ (<<"B", "A", "T">> :> "gemini-flash")

\* a configuration with the classifier enabled
ClassifierConfig(layers) ==
    [ConfigWith(layers) EXCEPT !.llm_classifier.category_routing = CategoryRouting]

ClassifierLayers == {Layers(TRUE, TRUE, TRUE), Layers(FALSE, FALSE, TRUE)}

\* what the classifier model answers to the prompt
ClassifierAnswers ==
    { <<"A", "R", "T">>, <<" ", "b", "a", "t", " ">>, <<"h", "a", "t">>, <<>> }

\* ctx._classify_fn: none, one that raises, one that returns an answer
ClassifyFns ==
    { NoClassifyFn, [present |-> TRUE, raises |-> TRUE, result |-> <<>>] }
    \cup { [present |-> TRUE, raises |-> FALSE, result |-> a] : a \in ClassifierAnswers }

ClassifierContexts ==
    { [messages |-> m, model_requested |-> Auto, has_tools |-> FALSE, headers |-> <<>>] :
        m \in { <<Msg("user", Hi)>>,
                <<Msg("user", LongText)>>,
                <<Msg("system", Heartbeat), Msg("user", LongText)>>,
                <<Msg("system", Hi), Msg("user", LongText)>> } }

\* self._layer_llm_classify(ctx) on a context whose _classify_fn is set as
\* the call gives it; routed is what the rest of route (router.py 99-132)
\* returns for that context
CallLayerLlmClassify ==
    /\ ~mt.called
    /\ mt.fn = "_layer_llm_classify"
    /\ LET cfg == ClassifierConfig(mt.layers)
           ctx == [_RoutingContext(mt.context.messages, mt.context.model_requested,
                                   mt.context.has_tools, mt.context.headers,
                                   mt.provider_health)
                      EXCEPT !.classify_fn = mt.classify_fn]
       IN  mt' = [mt EXCEPT !.called = TRUE,
                            !.layered = layer_decision(cfg, ctx),
                            !.result = _layer_llm_classify(cfg, ctx),
                            !.routed = route_ctx(cfg, ctx)]
    /\ UNCHANGED <<dispatch_vars, ph, ph_hist, ph_run, ph_op, rt, gbody, stats, cost,
                   dbpath>>

\* decision = await _router.route(messages, model_requested=..., has_tools=...,
\* headers=..., provider_health=health_map) (main.py 180-189): route takes no
\* callback and builds the context itself; mt.classify_fn is the callback
\* the dispatcher has for the classifier provider
CallRouteAsDispatcher ==
    /\ ~mt.called
    /\ mt.fn = "route"
    /\ LET cfg == ClassifierConfig(mt.layers)
           ctx == _RoutingContext(mt.context.messages, mt.context.model_requested,
                                  mt.context.has_tools, mt.context.headers,
                                  mt.provider_health)
       IN  mt' = [mt EXCEPT !.called = TRUE,
                            !.layered = layer_decision(cfg, ctx),
                            !.result = _layer_llm_classify(cfg, ctx),
                            !.routed = route(cfg, mt.context.messages,
                                             mt.context.model_requested,
                                             mt.context.has_tools, mt.context.headers,
                                             mt.provider_health)]
    /\ UNCHANGED <<dispatch_vars, ph, ph_hist, ph_run, ph_op, rt, gbody, stats, cost,
                   dbpath>>

NextClassify == CallLayerLlmClassify \/ CallRouteAsDispatcher

InitClassify ==
    /\ InitState(1, RouteDeployments, {NewHealth})
    /\ stats = NoQuery
    /\ cost = NoCostCall
    /\ dbpath = NoPathCall
    /\ \E fn \in {"_layer_llm_classify", "route"}, layers \in ClassifierLayers,
          context \in ClassifierContexts, classify_fn \in ClassifyFns,
          provider_health \in {SnapshotOf({}), SnapshotOf({"gemini-flash"})} :
          mt = [called |-> FALSE, fn |-> fn, layers |-> layers, context |-> context,
                classify_fn |-> classify_fn, provider_health |-> provider_health,
                layered |-> NoDecision, result |-> NoDecision, routed |-> NoDecision]

SpecClassify == InitClassify /\ [][NextClassify]_vars

(***************************************************************************)
(* A steady stream of routed requests after one provider has been marked   *)
(* unhealthy and every upstream has recovered: each attempt succeeds.  The *)
(* requests of the stream are not told apart (arrived and the request id   *)
(* stay as they are), which keeps the state space finite; metrics are      *)
(* disabled, so the log stays empty.                                       *)
(***************************************************************************)
\* requests that a rule decides: the heartbeat rule, the r1 rule, the
\* tool-use rule
RuleBodies ==
    { Body(Auto, <<Msg("system", Heartbeat), Msg("user", Hi)>>, FALSE),
      Body(<<"R", "1">>, <<Msg("user", Hi)>>, FALSE),
      Body(Auto, <<Msg("user", LongText)>>, TRUE) }

RecoverDeployments == {d \in Deployments : ~d.metrics_enabled}

\* the provider the rules name for a request, 0 when no rule decides it
rule_target(body) ==
    LET d == layer_decision(RouterConfig,
                            _RoutingContext(body.messages, model_requested_of(body),
                                            body.has_tools, body.headers, <<>>))
    IN  IF d = NoDecision THEN 0 ELSE d.provider_name

\* POST /v1/chat/completions through the routing engine, not streaming;
\* while a backend is unhealthy, the requests that arrive are those whose
\* rule names an unhealthy backend
ReceiveRuleRequest(s, body) ==
    /\ FreeSlot(s)
    /\ ~routes_directly(model_requested_of(body), backends)
    /\ (\E p \in backends : ~health[p].healthy)
          => (rule_target(body) \in backends /\ ~health[rule_target(body)].healthy)
    /\ snapshot' = [by |-> "route", map |-> health_map(health, backends)]
    /\ models' = NoListing
    /\ LET d == route(RouterConfig, body.messages, model_requested_of(body),
                      body.has_tools, body.headers, snapshot'.map)
           r == [IdleReq EXCEPT !.id = arrived + 1, !.model = body.model,
                                !.decision = d,
                                !.attempt_order =
                                    build_attempt_order(d.provider_name,
                                                        fallback_chain, backends)]
       IN  reqs' = [Retired EXCEPT ![s] = run_loop(r, 1, health, backends)]
    /\ UNCHANGED <<config_vars, health, log, arrived, unit_vars>>

NextRecover ==
    \/ \E s \in Slots, body \in RuleBodies : ReceiveRuleRequest(s, body)
    \/ \E s \in Slots, lat \in UpstreamLatencies : UpstreamReplies(s, "ok", lat, TRUE)

\* after earlier traffic that has filled the latency rings, one backend
\* has reached the failure threshold
InitRecover ==
    /\ tasks = 2
    /\ \E d \in RecoverDeployments :
          /\ providers = config_providers(d)
          /\ backends = lifespan_providers(providers)
          /\ fallback_chain = d.fallback_chain
          /\ metrics_enabled = d.metrics_enabled
    /\ \E down \in backends, h0 \in {Warm, NearThreshold} :
          health = [name \in backends |->
                       IF name = down THEN Failed(Warm, MaxFailuresDefault)
                       ELSE h0]
    /\ reqs = [s \in Slots |-> IdleReq]
    /\ log = <<>>
    /\ arrived = 0
    /\ snapshot = NoSnapshot
    /\ models = NoListing
    /\ ph = NewHealth
    /\ ph_hist = <<>>
    /\ ph_run = 0
    /\ ph_op = NoCall
    /\ rt = [last |-> NoRouteCall, kept |-> NoRouteCall, between |-> FALSE]
    /\ gbody = NoGoogleBody
    /\ stats = NoQuery
    /\ cost = NoCostCall
    /\ dbpath = NoPathCall
    /\ mt = NoMatchCall

\* an upstream call that is under way returns, and the event loop resumes
\* the task that awaits it
SpecRecover ==
    /\ InitRecover
    /\ [][NextRecover]_vars
    /\ \A s \in Slots :
          WF_vars(\E lat \in UpstreamLatencies : UpstreamReplies(s, "ok", lat, TRUE))

SpecConcurrent == InitConcurrent /\ [][Next]_vars

(***************************************************************************)
(* Properties of the dispatcher.                                           *)
(***************************************************************************)
\* the tasks whose request has a routing decision
Dispatched == {s \in Slots : reqs[s].decision # NoDecision}

AttemptedProviders(req) ==
    [k \in 1..Len(req.attempts) |-> req.attempts[k].provider]

RECURSIVE IsSubsequence(_, _)
IsSubsequence(a, b) ==
    IF a = <<>> THEN TRUE
    ELSE IF b = <<>> THEN FALSE
    ELSE IF Head(a) = Head(b) THEN IsSubsequence(Tail(a), Tail(b))
    ELSE IsSubsequence(a, Tail(b))

NoDuplicates(seq) == \A i, j \in 1..Len(seq) : seq[i] = seq[j] => i = j

\* task s has an attempt in flight at provider p
InFlightAt(s, p) ==
    /\ reqs[s].pc \in {"inflight", "streaming"}
    /\ reqs[s].attempt_order[reqs[s].cur] = p

\* C1: the providers a request attempts are, in order, a subsequence of the
\* chosen provider followed by the fallback chain without the chosen provider
\* and without providers that have no backend; a provider other than the
\* chosen one is attempted only if it is healthy when its turn comes; the
\* chosen provider, when it has a backend, is the first attempt whatever its
\* health.
AttemptOrderContract ==
    \A s \in Dispatched :
        LET req == reqs[s]
            chosen == req.decision.provider_name
            Eligible(fb) == fb # chosen /\ fb \in backends
            full == <<chosen>> \o SelectSeq(fallback_chain, Eligible)
            tried == AttemptedProviders(req)
        IN  /\ IsSubsequence(tried, full)
            /\ \A k \in 1..Len(tried) : tried[k] # chosen => req.attempts[k].healthy
            /\ chosen \in backends => tried # <<>> /\ tried[1] = chosen

\* C1 witness: the chosen provider was attempted while unhealthy, the next
\* provider of the order was skipped and the third was attempted
UnhealthyChosenTriedThenSkip ==
    \E s \in Dispatched :
        /\ Len(reqs[s].attempts) = 2
        /\ ~reqs[s].attempts[1].healthy
        /\ reqs[s].attempts[2].pos = 3

\* C2: the attempt order of a request holds no provider twice, and so no
\* provider is attempted twice for a request.
AttemptOrderUnique ==
    \A s \in Dispatched :
        /\ NoDuplicates(reqs[s].attempt_order)
        /\ NoDuplicates(AttemptedProviders(reqs[s]))

\* C2 witness: a chain that repeats a name and holds the chosen provider,
\* and a request that went on to its second attempt
RepeatingChainSecondAttempt ==
    \E s \in Dispatched :
        /\ ~NoDuplicates(fallback_chain)
        /\ \E i \in 1..Len(fallback_chain) :
              fallback_chain[i] = reqs[s].decision.provider_name
        /\ Len(reqs[s].attempts) >= 2

FailureOutcomes == Outcomes \ {"ok"}

\* the attempt of task s ends in this step
AttemptEnds(s) ==
    /\ reqs[s].pc \in {"inflight", "streaming"}
    /\ reqs'[s] # reqs[s]

\* C3: whenever an attempt ends in HTTP status >= 400, a timeout or a
\* connection error, whatever the dialect and whether streaming or not, the
\* provider's consecutive_failures grows by one, with metrics enabled one
\* row with success = false is written (unless the store fails the write),
\* and the dispatcher goes on to the next eligible provider of the order, or
\* answers 502 when there is none.
EveryFailureFailsOver ==
    [][\A s \in Slots :
          AttemptEnds(s) /\ reqs'[s].outcome \in FailureOutcomes =>
              LET req == reqs[s]
                  name == req.attempt_order[req.cur]
                  j == next_attempt(req.attempt_order, req.cur + 1, health', backends)
              IN  /\ health'[name].consecutive_failures =
                         health[name].consecutive_failures + 1
                  /\ metrics_enabled =>
                        IF reqs'[s].lost = req.lost + 1 THEN log' = log
                        ELSE /\ Len(log') = Len(log) + 1
                             /\ ~log'[Len(log')].success
                             /\ log'[Len(log')].provider = name
                  /\ IF j = 0 THEN reqs'[s].response.status = 502
                     ELSE /\ reqs'[s].cur = j
                          /\ reqs'[s].pc \in {"inflight", "streaming"}
      ]_vars

\* the last attempt of an answered request raised ProviderError (inside
\* complete, or inside the generator of _stream_response)
LastRaisedProviderError(req) ==
    LET name == req.attempts[Len(req.attempts)].provider
    IN  IF returns_generator(name, req.stream) THEN req.outcome = "http_error"
        ELSE complete_ends(name, req.outcome) = "ProviderError"

\* C4: a request is answered 502 exactly when every provider attempted for it
\* raised a provider error (every attempt but the last did, or the loop
\* would have ended); the attempts list of the 502 body then has one entry
\* per attempted provider, in attempt order.
BadGatewayExactlyWhenAllFailed ==
    \A s \in Dispatched :
        reqs[s].pc = "done" =>
            LET req == reqs[s]
                all_raised == IF req.attempts = <<>> THEN TRUE
                              ELSE LastRaisedProviderError(req)
            IN  /\ (req.response.status = 502) <=> all_raised
                /\ req.response.status = 502 =>
                       req.response.attempts = AttemptedProviders(req)

\* the rows the log holds for a request
RowsOf(id) ==
    LET Mine(row) == row.req = id
    IN  SelectSeq(log, Mine)

\* C5: with metrics enabled, a request that ends in a successful upstream
\* completion, streaming or not, has written as many rows as it made
\* attempts (less the writes the store failed): success = true for the
\* serving provider last, success = false for every attempt before it.
EveryAttemptLogged ==
    metrics_enabled =>
        \A s \in Dispatched :
            (/\ reqs[s].pc = "done"
             /\ reqs[s].response.status = 200
             /\ reqs[s].outcome = "ok") =>
                LET req == reqs[s]
                    rows == RowsOf(req.id)
                    n == Len(req.attempts)
                IN  /\ Len(rows) + req.lost = n
                    /\ req.lost = 0 =>
                          /\ rows[n].success
                          /\ rows[n].provider = req.attempts[n].provider
                          /\ \A k \in 1..(n - 1) : ~rows[k].success

\* C7: at every provider, consecutive_failures at or above the threshold
\* implies healthy = false, whatever the interleaving of the requests in
\* flight.
ThresholdImpliesUnhealthy ==
    \A p \in backends :
        health[p].consecutive_failures >= MaxFailuresDefault => ~health[p].healthy

\* C7 witness: a provider at the threshold through the failure of one request
\* while another request is still in flight at it
ThresholdWhileInFlight ==
    \E p \in backends :
        /\ health[p].consecutive_failures >= MaxFailuresDefault
        /\ \E s \in Slots : InFlightAt(s, p)
        /\ \E s \in Slots : reqs[s].errors # <<>> /\ reqs[s].errors[1] = p

\* C9: a snapshot taken by the routing step or by /health shows no half of
\* an update: not the threshold reached with healthy = true, not
\* consecutive_failures = 0 with an error text or with healthy = false, and
\* not an average that is not the average of the ring.
SnapshotsAreWhole ==
    snapshot.by # "none" =>
        \A p \in DOMAIN snapshot.map :
            LET d == snapshot.map[p]
                ring == health[p].latencies
            IN  /\ d.consecutive_failures >= MaxFailuresDefault => ~d.healthy
                /\ d.consecutive_failures = 0 => d.last_error = "" /\ d.healthy
                /\ ring # <<>> =>
                      d.avg_latency_ms =
                          RoundTenths([num |-> SumSeq(ring), den |-> Len(ring)])

\* C9 witness: a snapshot taken while a request is in flight at a provider
\* that another request's failure has just brought to the threshold
SnapshotWhileInFlight ==
    /\ snapshot.by # "none"
    /\ \E p \in DOMAIN snapshot.map :
          /\ snapshot.map[p].consecutive_failures >= MaxFailuresDefault
          /\ \E s \in Slots : InFlightAt(s, p)

\* C10: the health of a provider changes only in the step that ends an
\* attempt at that provider; that step is neither the routing step nor
\* /health, and attempts skipped in it change no health.
HealthFrame ==
    [][\A p \in backends :
          health'[p] # health[p] =>
              /\ \E s \in Slots : InFlightAt(s, p) /\ reqs'[s] # reqs[s]
              /\ snapshot' = NoSnapshot
      ]_vars

\* C10 witness: a request answered 502 after it skipped a provider, with the
\* health of two providers apart
SkippedAndApart ==
    \E s \in Dispatched :
        /\ reqs[s].pc = "done"
        /\ reqs[s].response.status = 502
        /\ Len(reqs[s].attempts) < Len(reqs[s].attempt_order)
        /\ \E p, q \in backends : health[p] # health[q]

(***************************************************************************)
(* Properties of one ProviderHealth object.                                *)
(***************************************************************************)
\* C6: after as many consecutive recorded failures as the threshold the
\* snapshot reports healthy = false; after a recorded success it reports
\* healthy = true, consecutive_failures = 0 and an empty last_error.
HealthMutation ==
    LET snap == to_dict("p", ph)
    IN  /\ ph_run >= MaxFailuresDefault => ~snap.healthy
        /\ ph_op.call = "record_success" =>
              /\ snap.healthy
              /\ snap.consecutive_failures = 0
              /\ snap.last_error = ""

\* C6 witness: a success recorded on an object the failures had made unhealthy
RecoveredBySuccess ==
    ph_op.call = "record_success" /\ ~ph_op.found_healthy

\* C8: the ring never holds more than 20 samples, it is the latencies of the
\* last min(20, number of successes) successes in arrival order, and a
\* recorded failure leaves it as it was.
LatencyRing ==
    [][LET n == IF Len(ph_hist') < RingSize THEN Len(ph_hist') ELSE RingSize
       IN  /\ Len(ph'.latencies) <= RingSize
           /\ ph'.latencies = SubSeq(ph_hist', Len(ph_hist') - n + 1, Len(ph_hist'))
           /\ ph_op'.call = "record_failure" => ph'.latencies = ph.latencies
      ]_vars

\* C8 witness: more successes than the ring holds, with different latencies,
\* and then a failure
RingWrappedThenFailure ==
    /\ Len(ph_hist) > RingSize
    /\ ph_hist[1] # ph_hist[Len(ph_hist)]
    /\ ph_op.call = "record_failure"

(***************************************************************************)
(* Properties of the routing engine.                                       *)
(***************************************************************************)
\* the context of the last call of route
LastContext ==
    _RoutingContext(rt.last.input.messages, rt.last.input.model_requested,
                    rt.last.input.has_tools, rt.last.input.headers,
                    rt.last.provider_health)

LastConfig == ConfigWith(rt.last.input.layers)

\* route returned
Returned == rt.last.called /\ ~rt.last.raised

\* the snapshot of a call reports the provider unhealthy
ReportedUnhealthy(call, name) ==
    /\ name \in DOMAIN call.provider_health
    /\ ~call.provider_health[name].healthy

\* C11: route never raises and always returns a decision; when no enabled
\* layer matches, the decision is layer fallback, rule no-match, confidence
\* 0.3, and names the first provider of the fallback chain, or deepseek-chat
\* when the chain is empty.
RouteNeverFails ==
    rt.last.called =>
        /\ ~rt.last.raised
        /\ rt.last.result # NoDecision
        /\ rt.last.layered = NoDecision =>
              rt.last.result =
                  Decision(IF fallback_chain # <<>> THEN fallback_chain[1]
                           ELSE "deepseek-chat",
                           "fallback", "no-match", 300)

\* C12: if an enabled static rule matches, the layers' decision is that of
\* the first matching static rule in declaration order, layer static,
\* confidence 1.0, whatever the heuristic rules match; otherwise, if an
\* enabled heuristic rule matches, it is that of the first matching
\* heuristic rule, layer heuristic, confidence 0.8.  Health validation keeps
\* the layer, and returns that decision as it is when its provider is not
\* reported unhealthy.
LayerOrder ==
    Returned =>
        LET srules == LastConfig.static_rules.rules
            hrules == LastConfig.heuristic_rules.rules
            SHit(i) == /\ LastConfig.static_rules.enabled
                       /\ _match_static(srules[i].match, LastContext)
            HHit(i) == /\ LastConfig.heuristic_rules.enabled
                       /\ _match_heuristic(hrules[i].match, LastContext)
            d == rt.last.layered
        IN  /\ IF \E i \in 1..Len(srules) : SHit(i)
               THEN \E i \in 1..Len(srules) :
                       /\ SHit(i) /\ \A j \in 1..(i - 1) : ~SHit(j)
                       /\ d = Decision(srules[i].route_to, "static", srules[i].name, 1000)
               ELSE IF \E i \in 1..Len(hrules) : HHit(i)
               THEN \E i \in 1..Len(hrules) :
                       /\ HHit(i) /\ \A j \in 1..(i - 1) : ~HHit(j)
                       /\ d = Decision(hrules[i].route_to, "heuristic",
                                       hrules[i].name, 800)
               ELSE d = NoDecision
            /\ d # NoDecision =>
                  /\ rt.last.result.layer = d.layer
                  /\ ~ReportedUnhealthy(rt.last, d.provider_name) => rt.last.result = d

\* C12 witness: a call on which a static rule and a heuristic rule both
\* match, decided by the static rule
StaticWinsOverHeuristic ==
    /\ Returned
    /\ rt.last.result.layer = "static"
    /\ rt.last.result.confidence = 1000
    /\ \E i \in DOMAIN rt.last.heuristic_match : rt.last.heuristic_match[i]
\* the snapshot of a call reports the provider healthy
ReportedHealthy(call, name) ==
    /\ name \in DOMAIN call.provider_health
    /\ call.provider_health[name].healthy

\* C13: when the provider the layers chose is reported unhealthy, route
\* returns the first provider of the fallback chain that is reported healthy
\* and differs from the original choice, with the layer kept, the rule name
\* extended by "→fallback" and the confidence multiplied by 0.8; when the
\* chain holds no such provider, or the chosen provider is not reported
\* unhealthy, route returns the layers' decision unchanged.
HealthSubstitution ==
    (Returned /\ rt.last.layered # NoDecision) =>
        LET d == rt.last.layered
            Good(i) == /\ ReportedHealthy(rt.last, fallback_chain[i])
                       /\ fallback_chain[i] # d.provider_name
            good == {i \in 1..Len(fallback_chain) : Good(i)}
        IN  IF ReportedUnhealthy(rt.last, d.provider_name) /\ good # {}
            THEN LET i == CHOOSE i \in good : \A j \in good : i <= j
                 IN  rt.last.result =
                         Decision(fallback_chain[i], d.layer,
                                  d.rule_name \o "→fallback",
                                  (d.confidence * 8) \div 10)
            ELSE rt.last.result = d

\* C14: route never returns a provider the snapshot reports unhealthy while
\* the snapshot reports another provider of the fallback chain healthy,
\* whichever layer decided, the no-match fallback included.
NeverUnhealthyBesideHealthy ==
    Returned =>
        ~ /\ ReportedUnhealthy(rt.last, rt.last.result.provider_name)
          /\ \E i \in 1..Len(fallback_chain) :
                /\ fallback_chain[i] # rt.last.result.provider_name
                /\ ReportedHealthy(rt.last, fallback_chain[i])

\* the heuristic rules that match on message keywords (the reasoning tier)
KeywordRules ==
    {i \in 1..Len(HeuristicRules.rules) :
        Has(HeuristicRules.rules[i].match, "message_keywords")}

\* every keyword of every keyword rule occurs in the system prompt of the
\* last call, and none occurs in its last user message
KeywordsOnlyInSystemPrompt ==
    \A i \in KeywordRules :
        LET any_of == HeuristicRules.rules[i].match.message_keywords.any_of
        IN  \A k \in 1..Len(any_of) :
               /\ Contains(Lower(any_of[k]), Lower(LastContext.system_prompt))
               /\ ~Contains(Lower(any_of[k]), Lower(LastContext.last_user_message))

\* C15 as stated: when the system prompt holds every keyword and the last
\* user message holds none, the provider route returns is not the provider
\* of any keyword rule.
KeywordsInSystemPromptAvoidProvider ==
    (Returned /\ KeywordsOnlyInSystemPrompt) =>
        \A i \in KeywordRules :
            rt.last.result.provider_name # HeuristicRules.rules[i].route_to

\* C15 amended: when the system prompt holds every keyword and the last user
\* message holds none, no keyword rule matches and the decision of route is
\* not made by a keyword rule (its provider may still be the one a keyword
\* rule names, when another rule or the fallback chain names it).
KeywordsInSystemPromptNoMatch ==
    (Returned /\ KeywordsOnlyInSystemPrompt) =>
        \A i \in KeywordRules :
            /\ ~rt.last.heuristic_match[i]
            /\ ~ /\ rt.last.layered # NoDecision
                 /\ rt.last.layered.layer = "heuristic"
                 /\ rt.last.layered.rule_name = HeuristicRules.rules[i].name
            /\ ~ /\ rt.last.result.layer = "heuristic"
                 /\ rt.last.result.rule_name \in
                       {HeuristicRules.rules[i].name,
                        HeuristicRules.rules[i].name \o "→fallback"}

\* C15 witness: such a call, with the heuristic layer enabled, that returns
\* the provider of a keyword rule all the same
KeywordProviderWithoutKeywordRule ==
    /\ Returned
    /\ KeywordsOnlyInSystemPrompt
    /\ rt.last.input.layers.heuristic
    /\ \E i \in KeywordRules :
          rt.last.result.provider_name = HeuristicRules.rules[i].route_to

\* a message of the last call has null content
HasNullContent ==
    \E k \in 1..Len(rt.last.input.messages) :
        rt.last.input.messages[k].content = NullContent

\* C18: on a message list in which some message has null content, route
\* does not raise and returns a decision with a non-empty provider name.
NullContentTolerated ==
    (rt.last.called /\ HasNullContent) =>
        /\ ~rt.last.raised
        /\ rt.last.result # NoDecision
        /\ rt.last.result.provider_name # ""
\* the last user message of a call's message list
LastUserMessage(call) == LastWithRole(call.input.messages, "user")

\* how many keywords of keyword rule i occur, case-insensitively, in a text
KeywordCount(i, text) ==
    LET any_of == HeuristicRules.rules[i].match.message_keywords.any_of
    IN  Cardinality({k \in 1..Len(any_of) :
                        Contains(Lower(any_of[k]), Lower(text))})

\* min_matches of keyword rule i, 1 when the rule gives none
MinMatches(i) ==
    LET kw_cfg == HeuristicRules.rules[i].match.message_keywords
    IN  IF "min_matches" \in DOMAIN kw_cfg THEN kw_cfg.min_matches ELSE 1

\* C16: a message_keywords rule matches exactly when the number of its
\* any_of keywords that occur, case-insensitively, in the last user message
\* is at least min_matches (1 when absent); two calls with the same last
\* user message get the same result from every message_keywords rule,
\* whatever their system prompts and earlier turns.
KeywordMatchOnLastUserMessage ==
    Returned =>
        \A i \in KeywordRules :
            /\ rt.last.heuristic_match[i]
                  <=> KeywordCount(i, LastUserMessage(rt.last)) >= MinMatches(i)
            /\ (/\ rt.kept.called
                /\ LastUserMessage(rt.kept) = LastUserMessage(rt.last))
                  => rt.kept.heuristic_match[i] = rt.last.heuristic_match[i]

\* C16 witness: two calls that share their last user message and differ in
\* the system prompt or in earlier turns, on both of which a keyword rule
\* with the default min_matches matches
SameLastUserMessageOtherContext ==
    /\ Returned
    /\ rt.kept.called
    /\ rt.kept.input.messages # rt.last.input.messages
    /\ LastUserMessage(rt.kept) = LastUserMessage(rt.last)
    /\ \E i \in KeywordRules :
          /\ "min_matches" \notin DOMAIN HeuristicRules.rules[i].match.message_keywords
          /\ rt.last.heuristic_match[i]

RECURSIVE ConcatTexts(_)
ConcatTexts(ps) ==
    IF ps = <<>> THEN <<>>
    ELSE (IF "has_text" \in DOMAIN Head(ps) /\ Head(ps).has_text
          THEN Head(ps).text ELSE <<>>) \o ConcatTexts(Tail(ps))

\* the string a message content stands for in a part
Flattened(content) ==
    CASE content.kind = "null" -> Str(<<>>)
      [] content.kind = "list" -> Str(ConcatTexts(content.parts))
      [] OTHER -> content

\* the messages of the last call that are not system messages
NonSystemMessages ==
    LET NotSystem(msg) == msg.role # "system"
    IN  SelectSeq(gbody.messages, NotSystem)

\* C19: in the request body _complete_google builds, the text of every part
\* of every contents item and of systemInstruction is a string: the empty
\* string for a null content, the concatenation of the elements' text
\* fields for a content array.
GoogleTextsAreStrings ==
    gbody.built =>
        /\ Len(gbody.body.contents) = Len(NonSystemMessages)
        /\ \A k \in 1..Len(gbody.body.contents) :
              \A j \in 1..Len(gbody.body.contents[k].parts) :
                 LET text == gbody.body.contents[k].parts[j].text
                 IN  /\ text.kind = "str"
                     /\ text = Flattened(NonSystemMessages[k].content)
        /\ "systemInstruction" \in DOMAIN gbody.body =>
              \A j \in 1..Len(gbody.body.systemInstruction.parts) :
                 gbody.body.systemInstruction.parts[j].text.kind = "str"

(***************************************************************************)
(* Properties of direct routing.                                           *)
(***************************************************************************)
\* task s has taken a parsed chat-completion body in this step
ReceivedBody(s) ==
    /\ arrived' = arrived + 1
    /\ reqs'[s].id = arrived'
    /\ reqs'[s].response.kind # "invalid_json"

\* C20: a request whose model is exactly the name of a provider that has a
\* backend (and is not auto) does not invoke the routing engine; its
\* decision names that provider with layer direct, rule explicit-model,
\* confidence 1.0, and that provider is the first attempt whatever its
\* health.  A request whose model is auto or absent (or names no backend)
\* invokes the routing engine.
DirectRouting ==
    [][\A s \in Slots :
          ReceivedBody(s) =>
             LET req == reqs'[s]
                 m == IF req.model = Missing THEN Auto ELSE req.model
             IN  IF m # Auto /\ AsString(m) \in backends
                 THEN /\ snapshot'.by # "route"
                      /\ req.decision =
                            Decision(AsString(m), "direct", "explicit-model", 1000)
                      /\ req.attempts # <<>>
                      /\ req.attempts[1].provider = AsString(m)
                      /\ req.attempts[1].healthy = health[AsString(m)].healthy
                 ELSE /\ snapshot'.by = "route"
                      /\ req.decision # NoDecision => req.decision.layer # "direct"]_vars

\* C20 witness: a directly routed request whose provider is attempted
\* although it is unhealthy
DirectToUnhealthy ==
    \E s \in Dispatched :
        /\ reqs[s].decision.layer = "direct"
        /\ reqs[s].attempts # <<>>
        /\ reqs[s].attempts[1].provider = reqs[s].decision.provider_name
        /\ ~reqs[s].attempts[1].healthy

(***************************************************************************)
(* Properties of the order of events within a request.                     *)
(***************************************************************************)
\* task s starts an attempt in this step
AttemptStarts(s) ==
    /\ reqs'[s].id # 0
    /\ reqs'[s].attempts # <<>>
    /\ \/ reqs'[s].id # reqs[s].id
       \/ Len(reqs'[s].attempts) > Len(reqs[s].attempts)

\* C21: within a request the routing decision exists before the first
\* attempt starts (every attempt is at a position of the attempt order the
\* decision heads, and the decision does not change afterwards); a success
\* row is written only when record_success has been applied to the health
\* of its provider; and a row is written for a request only in a step in
\* which an attempt of that request, in flight before, has ended.
OrderWithinRequest ==
    [][/\ \A s \in Slots :
             /\ AttemptStarts(s) =>
                   LET req == reqs'[s]
                       att == req.attempts[Len(req.attempts)]
                   IN  /\ req.decision # NoDecision
                       /\ req.attempt_order[1] = req.decision.provider_name
                       /\ req.attempt_order[att.pos] = att.provider
             /\ (reqs[s].attempts # <<>> /\ reqs'[s].id = reqs[s].id) =>
                   reqs'[s].decision = reqs[s].decision
       /\ log' # log =>
             /\ Len(log') = Len(log) + 1
             /\ LET row == log'[Len(log')]
                IN  \E s \in Slots :
                       /\ reqs[s].id = row.req
                       /\ reqs[s].pc = "inflight"
                       /\ reqs[s].attempt_order[reqs[s].cur] = row.provider
                       /\ reqs'[s].pc # "inflight" \/ reqs'[s].cur > reqs[s].cur
                       /\ row.success =>
                             \E latency_ms \in UpstreamLatencies :
                                health'[row.provider] =
                                    record_success(health[row.provider], latency_ms)]_vars

\* C21 witness: a success row is in the log and the health of its provider,
\* new when the request came, holds the latency of that success
SuccessRecordedThenLogged ==
    \E k \in 1..Len(log) :
        /\ log[k].success
        /\ Len(health[log[k].provider].latencies) = 1

(***************************************************************************)
(* Properties of the error paths.                                          *)
(***************************************************************************)
\* task s answers a body that is not JSON in this step
AnswersInvalidJson(s) ==
    /\ arrived' = arrived + 1
    /\ reqs'[s].id = arrived'
    /\ reqs'[s].response.kind = "invalid_json"

\* C22: a request whose body is not valid JSON is answered with 400 and
\* changes nothing else: the routing engine is not called, no provider is
\* attempted, no health changes and no row is written.
InvalidJsonChangesNothing ==
    [][\A s \in Slots :
          AnswersInvalidJson(s) =>
             /\ reqs'[s].response.status = 400
             /\ reqs'[s].pc = "done"
             /\ reqs'[s].decision = NoDecision
             /\ reqs'[s].attempts = <<>>
             /\ snapshot'.by # "route"
             /\ health' = health
             /\ log' = log]_vars

\* C22 witness: a 400 for a body that is not JSON, answered by a gateway
\* whose metrics store is enabled and holds a row, and one of whose
\* providers is unhealthy
InvalidJsonAnswered ==
    \E s \in Slots :
        /\ reqs[s].response.kind = "invalid_json"
        /\ reqs[s].response.status = 400
        /\ metrics_enabled /\ log # <<>>
        /\ \E p \in backends : ~health[p].healthy

\* the write of a row fails in the store in this step of task s
WriteFails(s) ==
    /\ reqs[s].pc = "inflight"
    /\ reqs'[s].id = reqs[s].id
    /\ reqs'[s].lost = reqs[s].lost + 1

\* C23: when the store fails inside log_request, nothing propagates: the
\* row is not written, the health of the providers is what the ended
\* attempt alone makes it, and the request goes on as after a write that
\* succeeded: a successful attempt is answered with 200 and its headers, a
\* failed one is followed by the rest of the attempt loop, up to the 502.
WriteFailureSwallowed ==
    [][\A s \in Slots :
          WriteFails(s) =>
             LET req == reqs[s]
                 name == req.attempt_order[req.cur]
                 outcome == reqs'[s].outcome
                 after == [reqs'[s] EXCEPT !.lost = req.lost]
                 seen == [req EXCEPT !.outcome = outcome]
             IN  /\ log' = log
                 /\ \E latency_ms \in UpstreamLatencies :
                       health' = [health EXCEPT ![name] =
                                     complete_health(@, name, outcome, latency_ms)]
                 /\ after.response.kind # "exception"
                 /\ IF outcome = "ok"
                    THEN after = [seen EXCEPT !.pc = "done",
                                     !.response =
                                         Response(200, IF req.stream THEN "stream"
                                                       ELSE "json",
                                                  SuccessHeaders(req, name), <<>>)]
                    ELSE after = run_loop([seen EXCEPT !.errors = Append(@, name)],
                                          req.cur + 1, health', backends)]_vars

\* C23 witness: a request answered 502 after two failed attempts, the row
\* of each of which was lost in the store
AllRowsLostThenBadGateway ==
    \E s \in Slots :
        /\ reqs[s].response.status = 502
        /\ Len(reqs[s].attempts) = 2
        /\ reqs[s].lost = 2

(***************************************************************************)
(* Properties of the metrics store.                                        *)
(***************************************************************************)
\* C24: the request log is append-only: a step leaves every row written
\* before in its place with its fields unchanged, the ids of the rows are
\* strictly increasing in write order, and a step that answers a query
\* (get_totals, get_provider_summary, get_routing_breakdown,
\* get_hourly_series, get_daily_totals, get_recent) leaves the log as it is.
LogAppendOnly ==
    [][/\ Len(log') >= Len(log)
       /\ SubSeq(log', 1, Len(log)) = log
       /\ \A i, j \in 1..Len(log') : i < j => log'[i].id < log'[j].id
       /\ stats'.query # "none" => log' = log]_vars

\* C24 witness: a query answered from a log of MaxRows rows
QueriedFullLog ==
    /\ Len(log) = MaxRows
    /\ stats.query = "get_recent"
    /\ Len(stats.result) = MaxRows

(***************************************************************************)
(* Properties of calc_cost.                                                *)
(***************************************************************************)
\* the prices of the cost formula: I, O, and C defaulting to I
PriceI == IF "input" \in DOMAIN cost.args.pricing THEN cost.args.pricing.input ELSE 0

PriceO == IF "output" \in DOMAIN cost.args.pricing THEN cost.args.pricing.output ELSE 0

PriceC ==
    IF "cache_read" \in DOMAIN cost.args.pricing THEN cost.args.pricing.cache_read
    ELSE PriceI

\* C25: calc_cost follows the cost formula: with cache_hit or cache_miss
\* non-zero the cost is cache_hit*C + cache_miss*I + completion*O, otherwise
\* prompt*I + completion*O (over a million), C being cache_read, or input
\* when cache_read is absent; zero token counts give zero cost.
CostFormula ==
    cost.called =>
        LET a == cost.args
        IN  /\ cost.result.den = Million
            /\ cost.result.num =
                  IF a.cache_hit # 0 \/ a.cache_miss # 0
                  THEN a.cache_hit * PriceC + a.cache_miss * PriceI
                       + a.completion_tokens * PriceO
                  ELSE a.prompt_tokens * PriceI + a.completion_tokens * PriceO
            /\ (/\ a.prompt_tokens = 0 /\ a.completion_tokens = 0
                /\ a.cache_hit = 0 /\ a.cache_miss = 0) => cost.result.num = 0

\* C25 witness: a call with cache hits, priced at the input rate because
\* the pricing table has no cache_read
CacheHitsAtInputRate ==
    /\ cost.called
    /\ cost.args.cache_hit > 0
    /\ "cache_read" \notin DOMAIN cost.args.pricing
    /\ "input" \in DOMAIN cost.args.pricing
    /\ cost.result.num >= cost.args.cache_hit * cost.args.pricing.input

\* C26: for fixed prompt and completion tokens and a fixed total of
\* cache_hit + cache_miss, under a pricing with cache_read < input, the cost
\* with one more cache hit is strictly lower.
CostDecreasesWithHits ==
    (cost.called /\ cost.before # NoCostCall /\ PriceC < PriceI) =>
        /\ cost.args.cache_hit = cost.before.args.cache_hit + 1
        /\ cost.args.cache_hit + cost.args.cache_miss
              = cost.before.args.cache_hit + cost.before.args.cache_miss
        /\ cost.args.prompt_tokens = cost.before.args.prompt_tokens
        /\ cost.args.completion_tokens = cost.before.args.completion_tokens
        /\ cost.result.num < cost.before.result.num

\* C26 witness: every token of the total has become a cache hit, and the
\* cost has gone down
AllHitsCheaper ==
    /\ cost.called /\ cost.before # NoCostCall
    /\ PriceC < PriceI
    /\ cost.args.cache_miss = 0
    /\ cost.args.cache_hit = MaxTokens
    /\ cost.result.num < cost.before.result.num

(***************************************************************************)
(* Properties of the metrics path.                                         *)
(***************************************************************************)
\* C27: unless CLAWGATE_DB_PATH is set in the environment, the path
\* _safe_db_path returns never starts with "./" and never equals
\* "clawgate.db".
PathNeverRelativeToRepo ==
    (dbpath.called /\ dbpath.env_db_path = Unset) =>
        /\ ~StartsWith(dbpath.result, <<".", "/">>)
        /\ dbpath.result # DbName

\* the configured value, None read as the empty string
Configured == IF dbpath.configured = PyNone THEN <<>> ELSE dbpath.configured.value

\* a path _safe_db_path accepts from the configuration
Accepted(p) ==
    /\ p # <<>>
    /\ ~StartsWith(p, DotSlashDbName)
    /\ p # DbName

HomeDefault == PathUnder(Home, <<<<".", "l", "o", "c", "a", "l">>,
                                 <<"s", "h", "a", "r", "e">>, AppDir, DbName>>)

\* C28 as stated: a non-empty CLAWGATE_DB_PATH is returned as it is;
\* otherwise an accepted configured path is returned as it is; otherwise
\* XDG_DATA_HOME/clawgate/clawgate.db when XDG_DATA_HOME is non-empty;
\* otherwise the default under the home directory.
PathPriorityAsIs ==
    dbpath.called =>
        IF EnvGet(dbpath.env_db_path) # <<>>
        THEN dbpath.result = EnvGet(dbpath.env_db_path)
        ELSE IF Accepted(Strip(Configured))
        THEN dbpath.result = Configured
        ELSE IF EnvGet(dbpath.xdg_data_home) # <<>>
        THEN dbpath.result = PathUnder(EnvGet(dbpath.xdg_data_home), <<AppDir, DbName>>)
        ELSE dbpath.result = HomeDefault

\* C28 amended: the same priority, every value being read without its
\* surrounding blanks: a CLAWGATE_DB_PATH that is not blank is returned
\* stripped; otherwise an accepted configured path is returned stripped;
\* otherwise the path under XDG_DATA_HOME when that is not blank; otherwise
\* the default under the home directory.
PathPriorityStripped ==
    dbpath.called =>
        LET env_path == Strip(EnvGet(dbpath.env_db_path))
            xdg == Strip(EnvGet(dbpath.xdg_data_home))
        IN  IF env_path # <<>>
            THEN dbpath.result = env_path
            ELSE IF Accepted(Strip(Configured))
            THEN dbpath.result = Strip(Configured)
            ELSE IF xdg # <<>>
            THEN dbpath.result = PathUnder(xdg, <<AppDir, DbName>>)
            ELSE dbpath.result = HomeDefault

\* C28 witness: a CLAWGATE_DB_PATH with surrounding blanks wins over an
\* accepted configured path and is returned without the blanks
PaddedOverrideWins ==
    /\ dbpath.called
    /\ Strip(EnvGet(dbpath.env_db_path)) # <<>>
    /\ Strip(EnvGet(dbpath.env_db_path)) # EnvGet(dbpath.env_db_path)
    /\ Accepted(Strip(Configured))
    /\ dbpath.result = Strip(EnvGet(dbpath.env_db_path))

(***************************************************************************)
(* Properties of fail-over on streaming requests and on connection         *)
(* failures.                                                               *)
(***************************************************************************)
\* the attempt of task s ends in this step, the upstream having answered it
\* with outcome
AttemptEndsWith(s, outcome) ==
    /\ reqs[s].pc \in {"inflight", "streaming"}
    /\ reqs'[s] # reqs[s]
    /\ reqs'[s].outcome = outcome

\* after the failed attempt of task s the dispatcher is at the next eligible
\* provider of the order, or has answered 502 when there is none
GoesOnOrBadGateway(s) ==
    LET j == next_attempt(reqs[s].attempt_order, reqs[s].cur + 1, health', backends)
    IN  IF j = 0
        THEN /\ reqs'[s].pc = "done"
             /\ reqs'[s].response.status = 502
        ELSE /\ reqs'[s].cur = j
             /\ reqs'[s].pc \in {"inflight", "streaming"}

\* C29: on a streaming request, an attempt the upstream answers with a
\* status >= 400 is recorded as a failure in the health of its provider and
\* is followed by an attempt at the next eligible provider, or by 502 once
\* all have failed, as on a request that does not stream.
StreamingFailsOver ==
    [][\A s \in Slots :
          (reqs[s].stream /\ AttemptEndsWith(s, "http_error")) =>
             LET name == reqs[s].attempt_order[reqs[s].cur]
             IN  /\ health'[name].consecutive_failures =
                       health[name].consecutive_failures + 1
                 /\ GoesOnOrBadGateway(s)]_vars

\* C30: for every dialect, an attempt that ends in a connection failure is
\* raised as a provider error (the request does not end in an unhandled
\* exception), is recorded as a failure in the health of its provider, and
\* the dispatcher goes on with the next provider.
ConnectionFailureFailsOver ==
    [][\A s \in Slots :
          AttemptEndsWith(s, "connect_error") =>
             LET name == reqs[s].attempt_order[reqs[s].cur]
             IN  /\ reqs'[s].response.kind # "exception"
                 /\ health'[name].consecutive_failures =
                       health[name].consecutive_failures + 1
                 /\ GoesOnOrBadGateway(s)]_vars

(***************************************************************************)
(* Properties of the matchers of the routing engine.                       *)
(***************************************************************************)
StaticCalled == mt.called /\ mt.fn = "_match_static"

\* some pattern is a substring of the lowercased requested model
ModelMatcherHits(match, ctx) ==
    /\ "model_requested" \in DOMAIN match
    /\ \E i \in 1..Len(match.model_requested) :
          Contains(match.model_requested[i], ctx.model_requested)

\* some keyword occurs in the system prompt, compared without regard to case
PromptMatcherHits(match, ctx) ==
    /\ "system_prompt_contains" \in DOMAIN match
    /\ \E i \in 1..Len(match.system_prompt_contains) :
          Contains(Lower(match.system_prompt_contains[i]), Lower(ctx.system_prompt))

\* some pattern occurs in the value of a named header of the context,
\* compared without regard to case
HeaderMatcherHits(match, ctx) ==
    /\ "header_contains" \in DOMAIN match
    /\ \E name \in DOMAIN match.header_contains :
          /\ name \in DOMAIN ctx.headers
          /\ \E i \in 1..Len(match.header_contains[name]) :
                Contains(Lower(match.header_contains[name][i]),
                         Lower(ctx.headers[name]))

\* C31: a static match object without 'any' matches iff at least one of the
\* matchers it has (model_requested, system_prompt_contains, header_contains)
\* matches, so an object whose only key misses or that has no recognised key
\* does not match; an object with 'any' matches iff some element matches.
StaticMatchIsDisjunction ==
    StaticCalled =>
        LET ctx == context_of(mt.context)
        IN  IF "any" \in DOMAIN mt.match
            THEN mt.result = (\E i \in 1..Len(mt.elements) : mt.elements[i])
            ELSE mt.result = \/ ModelMatcherHits(mt.match, ctx)
                             \/ PromptMatcherHits(mt.match, ctx)
                             \/ HeaderMatcherHits(mt.match, ctx)

\* an object with two keys matched by its second key after its first missed
SecondKeyMatchedAfterMiss ==
    /\ StaticCalled
    /\ DOMAIN mt.match = {"model_requested", "header_contains"}
    /\ ~ModelMatcherHits(mt.match, context_of(mt.context))
    /\ mt.result

\* _match_heuristic was called on an object whose only key is
\* estimated_tokens and that gives at least one bound
TokenBoundsCalled ==
    /\ mt.called
    /\ mt.fn = "_match_heuristic"
    /\ DOMAIN mt.match = {"estimated_tokens"}
    /\ DOMAIN mt.match.estimated_tokens # {}

\* C32: an estimated_tokens heuristic matches iff the estimated total-token
\* count satisfies every bound that is present: below less_than when it is
\* given and above greater_than when it is given.
TokenBoundsAllHold ==
    TokenBoundsCalled =>
        LET tok_match == mt.match.estimated_tokens
            count == context_of(mt.context).total_tokens
        IN  mt.result =
               /\ ("less_than" \in DOMAIN tok_match => count < tok_match.less_than)
               /\ ("greater_than" \in DOMAIN tok_match
                      => count > tok_match.greater_than)

(***************************************************************************)
(* Properties of the LLM classifier layer.                                 *)
(***************************************************************************)
\* the classifier layer is enabled and runs: no static and no heuristic
\* rule matched the request of the call
ClassifierReached ==
    /\ mt.called
    /\ mt.fn \in {"_layer_llm_classify", "route"}
    /\ mt.layers.llm
    /\ LET cfg == ClassifierConfig(mt.layers)
           ctx == context_of(mt.context)
       IN  /\ _layer_static(cfg, ctx) = NoDecision
           /\ _layer_heuristic(cfg, ctx) = NoDecision

\* the trimmed, uppercased answer of the callback
CategoryAnswered == Upper(Strip(mt.classify_fn.result))

\* the callback the context of the call carries is missing, raises, or
\* answers a category that category_routing does not have; a context that
\* route builds carries none
ClassifierFails ==
    \/ mt.fn = "route"
    \/ ~mt.classify_fn.present
    \/ mt.classify_fn.raises
    \/ CategoryAnswered \notin DOMAIN CategoryRouting

\* C33: with the classifier enabled and no static or heuristic match, a
\* classifier failure (the callback raises, is missing, or answers a
\* category absent from category_routing) produces no decision, and route
\* returns the fallback decision with rule_name no-match.
ClassifierFailureFallsThrough ==
    (ClassifierReached /\ ClassifierFails) =>
        /\ mt.result = NoDecision
        /\ mt.routed = Decision(IF fallback_chain # <<>> THEN fallback_chain[1]
                                ELSE "deepseek-chat",
                                "fallback", "no-match", 300)

\* the callback raised after the rule layers, enabled, matched nothing
CallbackRaisedThenNoMatch ==
    /\ ClassifierReached
    /\ mt.fn = "_layer_llm_classify"
    /\ mt.layers.static
    /\ mt.classify_fn.present
    /\ mt.classify_fn.raises
    /\ mt.routed.rule_name = "no-match"

\* C34: with the classifier enabled, a request that matches no static and
\* no heuristic rule is classified through the callback of the dispatcher:
\* when the trimmed, uppercased answer is a key of category_routing, the
\* decision route returns to the dispatcher has layer llm-classify, and the
\* mapped provider with confidence 0.7 unless the snapshot reports that
\* provider unhealthy.
ClassifiedThroughDispatcherCallback ==
    (/\ ClassifierReached
     /\ mt.fn = "route"
     /\ mt.classify_fn.present
     /\ ~mt.classify_fn.raises
     /\ CategoryAnswered \in DOMAIN CategoryRouting) =>
        /\ mt.routed.layer = "llm-classify"
        /\ LET mapped == CategoryRouting[CategoryAnswered]
           IN  (mapped \in DOMAIN mt.provider_health
                   => mt.provider_health[mapped].healthy)
               => /\ mt.routed.provider_name = mapped
                  /\ mt.routed.confidence = 700

AnsweredAfterAnAttempt ==
    \A s \in Slots :
        (reqs[s].pc = "done" /\ reqs[s].attempt_order # <<>>) =>
            /\ (\E i \in 1..Len(reqs[s].attempt_order) :
                    reqs[s].attempt_order[i] \in backends)
                  => reqs[s].attempts # <<>>
            /\ reqs[s].response.status = 502 => reqs[s].response.attempts # <<>>

(***************************************************************************)
(* Properties of recovery.                                                 *)
(***************************************************************************)
\* an upstream attempt at p is under way
Attempting(p) ==
    \E s \in Slots :
        reqs[s].pc = "inflight" /\ reqs[s].attempt_order[reqs[s].cur] = p

\* the last step received a request that the routing engine decided; in
\* SpecRecover its rule names the unhealthy provider as long as there is one
RuleRequestArrives == snapshot.by = "route"

\* C37: a provider that has been marked unhealthy is eventually attempted
\* again, provided requests whose routing rule names it keep arriving.
UnhealthyAttemptedAgain ==
    \A p \in ProviderNames :
        ([]<>RuleRequestArrives)
            => ((p \in backends /\ ~health[p].healthy) ~> Attempting(p))

(***************************************************************************)
(* Properties of the skip decision under concurrent requests.              *)
(***************************************************************************)
\* the positions of its attempt order that request s passes in this step:
\* those after its current attempt, up to the next attempt it starts or to
\* the end of the order
PassedInStep(s) ==
    IF reqs'[s].pc \in {"inflight", "streaming"}
    THEN (reqs[s].cur + 1)..(reqs'[s].cur - 1)
    ELSE (reqs[s].cur + 1)..Len(reqs[s].attempt_order)

ServedByFallback(s) ==
    /\ reqs[s].pc \in {"done", "streaming"}
    /\ reqs[s].response.status = 200
    /\ Len(reqs[s].attempts) >= 2

HeaderValues(req, header) == {h[2] : h \in {g \in req.response.headers : g[1] = header}}

SubstitutedRuleNames ==
    {StaticRules.rules[i].name \o "→fallback" : i \in DOMAIN StaticRules.rules}
        \cup {HeuristicRules.rules[i].name \o "→fallback" :
                 i \in DOMAIN HeuristicRules.rules}

\* request s has just been routed, and health validation replaced the
\* provider its rule names
JustSubstituted(s) ==
    /\ snapshot.by = "route"
    /\ reqs[s].id = arrived
    /\ reqs[s].decision # NoDecision
    /\ reqs[s].decision.rule_name \in SubstitutedRuleNames

\* C40: the provider health validation substitutes has a backend and an
\* entry in the health snapshot: route never replaces an unhealthy choice by
\* a name of the fallback chain that the snapshot does not hold.
SubstituteHasBackendAndEntry ==
    \A s \in Slots :
        JustSubstituted(s) =>
            /\ reqs[s].decision.provider_name \in DOMAIN snapshot.map
            /\ reqs[s].decision.provider_name \in backends

====
